---- MODULE Spec2Model ----
(***************************************************************************)
(* Housecall Pro -> Patch Retention contact sync.                          *)
(*                                                                         *)
(* Value conventions:                                                      *)
(*   - a JavaScript object is a record; a property that is missing reads   *)
(*     as NULL (Get), as does one holding null or undefined;               *)
(*   - text fields are strings, read character by character with Head,   *)
(*     Tail and SubSeq; BLANK is a string of white space only;             *)
(*   - a completeness score is counted in half points (score * 2);         *)
(*   - a timestamp is a string; DateValue gives the instant it parses to   *)
(*     or NaN.                                                             *)
(***************************************************************************)
EXTENDS Integers, Sequences, FiniteSets, TLC

\* null / undefined / missing property
NULL == "<null>"
\* a string of white space only: truthy, empty once trimmed
BLANK == " "
\* the Invalid Date time value
NaN == -1

Get(o, k) == IF k \in DOMAIN o THEN o[k] ELSE NULL

\* JavaScript truthiness of a string-or-null value
Truthy(v) == v # NULL /\ v # ""

WhiteSpace == {" ", "\t"}

RECURSIVE TrimStart(_)
TrimStart(s) ==
  IF s = "" THEN ""
  ELSE IF Head(s) \in WhiteSpace THEN TrimStart(Tail(s)) ELSE s

RECURSIVE TrimEnd(_)
TrimEnd(s) ==
  IF s = "" THEN ""
  ELSE IF SubSeq(s, Len(s), Len(s)) \in WhiteSpace
       THEN TrimEnd(SubSeq(s, 1, Len(s) - 1)) ELSE s

\* String.prototype.trim
Trim(s) == TrimEnd(TrimStart(s))

\* `v && v.trim()` as a condition
NonBlank(v) == Truthy(v) /\ Truthy(Trim(v))

\* a || b on string-or-null values
OrElse(a, b) == IF Truthy(a) THEN a ELSE b

(***************************************************************************)
(* Timestamps: new Date(text).  Two texts may denote the same instant.     *)
(***************************************************************************)
T0 == "2024-01-01T00:00:00Z"
T0local == "2023-12-31T17:00:00-07:00"
T1 == "2024-01-01T00:00:01Z"
T2 == "2024-03-05T12:00:00Z"
BadDate == "not-a-date"

DateValue(text) ==
  CASE text = T0      -> 1704067200
    [] text = T0local -> 1704067200
    [] text = T1      -> 1704067201
    [] text = T2      -> 1709640000
    [] OTHER          -> NaN

\* a > b on two Date objects: false when either is Invalid Date
DateGreater(a, b) == a # NaN /\ b # NaN /\ a > b

(***************************************************************************)
(* lib/merge.js                                                            *)
(***************************************************************************)
\* mutant: street and address are counted separately
calculateCompleteness_StreetAndAddress(contact) ==
    (IF NonBlank(Get(contact, "first_name")) THEN 2 ELSE 0)
  + (IF NonBlank(Get(contact, "last_name")) THEN 2 ELSE 0)
  + (IF NonBlank(Get(contact, "phone")) THEN 2 ELSE 0)
  + (IF NonBlank(Get(contact, "email")) THEN 2 ELSE 0)
  + (IF NonBlank(Get(contact, "city")) THEN 2 ELSE 0)
  + (IF Truthy(Get(contact, "street")) THEN 1 ELSE 0)
  + (IF Truthy(Get(contact, "address")) THEN 1 ELSE 0)
  + (IF Truthy(Get(contact, "state")) THEN 1 ELSE 0)
  + (IF Truthy(Get(contact, "zip")) THEN 1 ELSE 0)
  + (IF "tags" \in DOMAIN contact /\ Len(contact.tags) > 0 THEN 1 ELSE 0)

\* score in half points
calculateCompleteness(contact) ==
    (IF NonBlank(Get(contact, "first_name")) THEN 2 ELSE 0)
  + (IF NonBlank(Get(contact, "last_name")) THEN 2 ELSE 0)
  + (IF NonBlank(Get(contact, "phone")) THEN 2 ELSE 0)
  + (IF NonBlank(Get(contact, "email")) THEN 2 ELSE 0)
  + (IF NonBlank(Get(contact, "city")) THEN 2 ELSE 0)
  + (IF Truthy(Get(contact, "street")) \/ Truthy(Get(contact, "address")) THEN 1 ELSE 0)
  + (IF Truthy(Get(contact, "state")) THEN 1 ELSE 0)
  + (IF Truthy(Get(contact, "zip")) THEN 1 ELSE 0)
  + (IF "tags" \in DOMAIN contact /\ Len(contact.tags) > 0 THEN 1 ELSE 0)

\* mutant: an equal timestamp counts as newer
isNewerData_OrEqual(hcCustomer, patchContact) ==
  IF ~Truthy(Get(hcCustomer, "updated_at")) \/ ~Truthy(Get(patchContact, "updated_at"))
  THEN FALSE
  ELSE LET hcDate == DateValue(hcCustomer.updated_at)
           patchDate == DateValue(patchContact.updated_at)
       IN  hcDate # NaN /\ patchDate # NaN /\ hcDate >= patchDate

isNewerData(hcCustomer, patchContact) ==
  IF ~Truthy(Get(hcCustomer, "updated_at")) \/ ~Truthy(Get(patchContact, "updated_at"))
  THEN FALSE
  ELSE DateGreater(DateValue(hcCustomer.updated_at), DateValue(patchContact.updated_at))

wasManuallyEdited(patchContact) ==
  Truthy(Get(patchContact, "channel")) /\ patchContact.channel # "API"

\* mutant: the recency rule is tried before the manual-edit rule
shouldUpdate_RecencyFirst(hcCustomer, patchContact) ==
  IF isNewerData(hcCustomer, patchContact) THEN TRUE
  ELSE IF wasManuallyEdited(patchContact) THEN FALSE
  ELSE calculateCompleteness(hcCustomer) > calculateCompleteness(patchContact)

shouldUpdate(hcCustomer, patchContact) ==
  IF wasManuallyEdited(patchContact) THEN FALSE
  ELSE IF isNewerData(hcCustomer, patchContact) THEN TRUE
  ELSE calculateCompleteness(hcCustomer) > calculateCompleteness(patchContact)

\* existingContact is a contact record, or NoContact for null
NoContact == [none |-> TRUE]
IsContact(c) == "none" \notin DOMAIN c

\* mutant: without a match, a customer that carries no timestamp is skipped
decideMergeStrategy_CreateIfDated(hcCustomer, existingContact) ==
  IF ~IsContact(existingContact)
  THEN IF Truthy(Get(hcCustomer, "updated_at"))
       THEN [action |-> "create", contact |-> NoContact]
       ELSE [action |-> "skip", contact |-> NoContact]
  ELSE IF shouldUpdate(hcCustomer, existingContact)
       THEN [action |-> "update", contact |-> existingContact]
       ELSE [action |-> "skip", contact |-> existingContact]

decideMergeStrategy(hcCustomer, existingContact) ==
  IF ~IsContact(existingContact) THEN [action |-> "create", contact |-> NoContact]
  ELSE IF shouldUpdate(hcCustomer, existingContact)
       THEN [action |-> "update", contact |-> existingContact]
       ELSE [action |-> "skip", contact |-> existingContact]

(***************************************************************************)
(* lib/dedup.js: phone normalisation                                       *)
(***************************************************************************)
DigitChars == {"0", "1", "2", "3", "4", "5", "6", "7", "8", "9"}

\* phone.replace(/\D/g, '')
RECURSIVE StripNonDigits(_)
StripNonDigits(s) ==
  IF s = "" THEN ""
  ELSE (IF Head(s) \in DigitChars THEN Head(s) ELSE "") \o StripNonDigits(Tail(s))

UsNumberLength == 11

\* mutant: a leading 1 is dropped whatever the number of digits
normalizePhone_AnyLeadingOne(phone) ==
  IF ~Truthy(phone) THEN ""
  ELSE LET normalized == StripNonDigits(phone)
       IN  IF normalized # "" /\ Head(normalized) = "1"
           THEN Tail(normalized) ELSE normalized

normalizePhone(phone) ==
  IF ~Truthy(phone) THEN ""
  ELSE LET normalized == StripNonDigits(phone)
       IN  IF Len(normalized) = UsNumberLength /\ Head(normalized) = "1"
           THEN Tail(normalized) ELSE normalized

(***************************************************************************)
(* lib/transform.js                                                        *)
(***************************************************************************)
HasAddresses(customer) ==
  "addresses" \in DOMAIN customer /\ Len(customer.addresses) > 0

\* mutant: the first address, whatever its type
ServiceAddress_First(addresses) == addresses[1]

\* addresses.find(addr => addr.type === 'service') || addresses[0]
ServiceAddress(addresses) ==
  IF \E i \in 1..Len(addresses) : Get(addresses[i], "type") = "service"
  THEN addresses[CHOOSE i \in 1..Len(addresses) :
                   /\ Get(addresses[i], "type") = "service"
                   /\ \A j \in 1..(i - 1) : Get(addresses[j], "type") # "service"]
  ELSE addresses[1]

extractCity(customer) ==
  IF ~HasAddresses(customer) THEN NULL
  ELSE OrElse(Get(ServiceAddress(customer.addresses), "city"), NULL)

extractStreet(customer) ==
  IF ~HasAddresses(customer) THEN NULL
  ELSE LET a == ServiceAddress(customer.addresses)
           line1 == OrElse(Get(a, "street"), "")
           street == IF Truthy(Get(a, "street_line_2"))
                     THEN line1 \o " " \o a.street_line_2 ELSE line1
       IN  OrElse(Trim(street), NULL)

extractState(customer) ==
  IF ~HasAddresses(customer) THEN NULL
  ELSE OrElse(Get(ServiceAddress(customer.addresses), "state"), NULL)

extractZip(customer) ==
  IF ~HasAddresses(customer) THEN NULL
  ELSE OrElse(Get(ServiceAddress(customer.addresses), "zip"), NULL)

\* [...new Set(tags)]: first occurrences, in order
RECURSIVE Dedup(_)
Dedup(tags) ==
  IF tags = <<>> THEN <<>>
  ELSE LET init == Dedup(SubSeq(tags, 1, Len(tags) - 1))
           last == tags[Len(tags)]
       IN  IF \E i \in 1..Len(init) : init[i] = last THEN init ELSE Append(init, last)

buildTags(customer, lastServiceDate, isInitialSync) ==
  Dedup(   <<"Source:housecallpro">>
        \o <<IF isInitialSync THEN "Sync:initial" ELSE "Sync:realtime">>
        \o (IF Truthy(extractState(customer))
            THEN <<"State:" \o extractState(customer)>> ELSE <<>>)
        \o (IF Truthy(lastServiceDate) THEN <<"Has-Service-History">> ELSE <<>>)
        \o (IF "tags" \in DOMAIN customer THEN customer.tags ELSE <<>>))

\* new Date(text).toISOString().split('T')[0]; NULL stands for the RangeError
\* that toISOString raises on an Invalid Date
IsoDay(text) ==
  CASE text = T0      -> "2024-01-01"
    [] text = T0local -> "2024-01-01"
    [] text = T1      -> "2024-01-01"
    [] text = T2      -> "2024-03-05"
    [] OTHER          -> NULL

\* the object literal of transformCustomer / transformCustomerSync, the
\* address and the tags pushed after it, before empty fields are deleted
PatchContactDraft(customer, lastServiceDate, isInitialSync) ==
  [first_name |-> OrElse(Get(customer, "first_name"), ""),
   last_name  |-> OrElse(Get(customer, "last_name"), ""),
   phone      |-> OrElse(Get(customer, "mobile_number"),
                         OrElse(Get(customer, "home_number"), "")),
   email      |-> OrElse(Get(customer, "email"), ""),
   city       |-> extractCity(customer),
   address    |-> extractStreet(customer),
   tags       |-> buildTags(customer, lastServiceDate, isInitialSync)
                  \o (IF Truthy(extractZip(customer))
                      THEN <<"ZIP:" \o extractZip(customer)>> ELSE <<>>)
                  \o (IF Truthy(lastServiceDate)
                      THEN <<"LastService:" \o IsoDay(lastServiceDate)>> ELSE <<>>)]

\* mutant: only null and undefined are deleted
RemoveEmpty_KeepsBlank(draft) ==
  [k \in {key \in DOMAIN draft : key = "tags" \/ draft[key] # NULL} |-> draft[k]]

\* delete every key whose value is null, undefined or ''
RemoveEmpty(draft) ==
  [k \in {key \in DOMAIN draft : key = "tags" \/ Truthy(draft[key])} |-> draft[k]]

\* mutant: the ZIP tag is not pushed
transformCustomerSync_NoZip(customer, isInitialSync) ==
  RemoveEmpty([PatchContactDraft(customer, NULL, isInitialSync)
                 EXCEPT !.tags = buildTags(customer, NULL, isInitialSync)])

transformCustomerSync(customer, isInitialSync) ==
  RemoveEmpty(PatchContactDraft(customer, NULL, isInitialSync))

\* a raised Error
Failure(message) == [failed |-> TRUE, message |-> message]
IsFailure(v) == "failed" \in DOMAIN v

\* lastServiceDate is what getLastServiceDate resolved to (NULL when none, or
\* when the history was not requested or the customer has no id)
transformCustomer(customer, isInitialSync, lastServiceDate) ==
  IF Truthy(lastServiceDate) /\ IsoDay(lastServiceDate) = NULL
  THEN Failure("Failed to transform customer: Invalid time value")
  ELSE RemoveEmpty(PatchContactDraft(customer, lastServiceDate, isInitialSync))

(***************************************************************************)
(* State                                                                   *)
(***************************************************************************)
VARIABLES
  downstream,      \* the contacts held by Patch Retention, in listing order
  contactsCache,   \* dedup.js module state: the cached Map, or NoMap for null
  cacheTimestamp,  \* dedup.js module state: Date.now() of the build, 0 for null
  now,             \* Date.now()
  ticks,           \* how often the clock has advanced
  bulk,            \* the bulk migration: runBulkSync / syncBatch position and results
  calls,           \* the API calls issued by the operation that ran last
  result,          \* what the operation that ran last returned
  probe            \* merge decision on enumerated inputs: inputs, payload, decision

vars == <<downstream, contactsCache, cacheTimestamp, now, ticks, bulk, calls, result, probe>>

(***************************************************************************)
(* A JavaScript Map: entries in insertion order, one per key               *)
(***************************************************************************)
NoMap == [none |-> TRUE]
IsMap(m) == "none" \notin DOMAIN m
EmptyMap == [entries |-> <<>>]

MapHas(m, k) == \E i \in 1..Len(m.entries) : m.entries[i].key = k

\* Map.prototype.get, NoContact for undefined
MapGet(m, k) ==
  IF MapHas(m, k)
  THEN m.entries[CHOOSE i \in 1..Len(m.entries) : m.entries[i].key = k].value
  ELSE NoContact

\* Map.prototype.set: an existing key keeps its position
MapSet(m, k, v) ==
  IF MapHas(m, k)
  THEN [entries |-> [i \in 1..Len(m.entries) |->
                       IF m.entries[i].key = k THEN [key |-> k, value |-> v]
                       ELSE m.entries[i]]]
  ELSE [entries |-> Append(m.entries, [key |-> k, value |-> v])]

(***************************************************************************)
(* lib/dedup.js: the contact index                                         *)
(***************************************************************************)
CACHE_TTL == 5 * 60 * 1000

\* mutant: the phone as stored is the key
RECURSIVE IndexContacts_RawKeys(_)
IndexContacts_RawKeys(contacts) ==
  IF contacts = <<>> THEN EmptyMap
  ELSE LET before == IndexContacts_RawKeys(SubSeq(contacts, 1, Len(contacts) - 1))
           contact == contacts[Len(contacts)]
       IN  IF Truthy(Get(contact, "phone")) /\ Truthy(normalizePhone(Get(contact, "phone")))
           THEN MapSet(before, Get(contact, "phone"), contact)
           ELSE before

\* mutant: a key once set is kept
RECURSIVE IndexContacts_FirstWins(_)
IndexContacts_FirstWins(contacts) ==
  IF contacts = <<>> THEN EmptyMap
  ELSE LET before == IndexContacts_FirstWins(SubSeq(contacts, 1, Len(contacts) - 1))
           contact == contacts[Len(contacts)]
           normalizedPhone == normalizePhone(Get(contact, "phone"))
       IN  IF Truthy(Get(contact, "phone")) /\ Truthy(normalizedPhone)
              /\ ~MapHas(before, normalizedPhone)
           THEN MapSet(before, normalizedPhone, contact)
           ELSE before

\* contacts.forEach(contact => ... phoneLookup.set(normalizedPhone, contact))
RECURSIVE IndexContacts(_)
IndexContacts(contacts) ==
  IF contacts = <<>> THEN EmptyMap
  ELSE LET before == IndexContacts(SubSeq(contacts, 1, Len(contacts) - 1))
           contact == contacts[Len(contacts)]
           normalizedPhone == normalizePhone(Get(contact, "phone"))
       IN  IF Truthy(Get(contact, "phone")) /\ Truthy(normalizedPhone)
           THEN MapSet(before, normalizedPhone, contact)
           ELSE before

\* mutant: an index exactly as old as the TTL still counts as fresh
CacheIsFresh_Inclusive(cache, timestamp, time) ==
  IsMap(cache) /\ timestamp # 0 /\ (time - timestamp) <= CACHE_TTL

CacheIsFresh(cache, timestamp, time) ==
  IsMap(cache) /\ timestamp # 0 /\ (time - timestamp) < CACHE_TTL

\* mutant: the cache is not consulted
buildPhoneLookup_AlwaysFetch(forceRefresh, cache, timestamp, time, listing) ==
  IF IsFailure(listing)
  THEN [lookup |-> listing, cache |-> cache, timestamp |-> timestamp,
        calls |-> <<[op |-> "list", ok |-> FALSE]>>]
  ELSE LET phoneLookup == IndexContacts(listing.contacts)
       IN  [lookup |-> phoneLookup, cache |-> phoneLookup,
            timestamp |-> time, calls |-> <<[op |-> "list", ok |-> TRUE]>>]

\* mutant: a failed build drops the cached index
buildPhoneLookup_DropsOnFailure(forceRefresh, cache, timestamp, time, listing) ==
  IF ~forceRefresh /\ CacheIsFresh(cache, timestamp, time)
  THEN [lookup |-> cache, cache |-> cache, timestamp |-> timestamp, calls |-> <<>>]
  ELSE IF IsFailure(listing)
  THEN [lookup |-> listing, cache |-> NoMap, timestamp |-> timestamp,
        calls |-> <<[op |-> "list", ok |-> FALSE]>>]
  ELSE LET phoneLookup == IndexContacts(listing.contacts)
       IN  [lookup |-> phoneLookup, cache |-> phoneLookup,
            timestamp |-> time, calls |-> <<[op |-> "list", ok |-> TRUE]>>]

\* listing is what getAllContacts resolves to: [contacts |-> ...], or a Failure.
\* Gives the lookup (or the Failure raised), the module state afterwards and
\* the calls issued, each with what it was answered.
buildPhoneLookup(forceRefresh, cache, timestamp, time, listing) ==
  IF ~forceRefresh /\ CacheIsFresh(cache, timestamp, time)
  THEN [lookup |-> cache, cache |-> cache, timestamp |-> timestamp, calls |-> <<>>]
  ELSE IF IsFailure(listing)
  THEN [lookup |-> listing, cache |-> cache, timestamp |-> timestamp,
        calls |-> <<[op |-> "list", ok |-> FALSE]>>]
  ELSE LET phoneLookup == IndexContacts(listing.contacts)
       IN  [lookup |-> phoneLookup, cache |-> phoneLookup,
            timestamp |-> time, calls |-> <<[op |-> "list", ok |-> TRUE]>>]

\* mutant: no catch around the build
findContactByPhone_Propagates(phone, phoneLookup, cache, timestamp, time, listing) ==
  IF ~Truthy(phone)
  THEN [contact |-> NoContact, cache |-> cache, timestamp |-> timestamp, calls |-> <<>>]
  ELSE LET built == IF IsMap(phoneLookup)
                    THEN [lookup |-> phoneLookup, cache |-> cache,
                          timestamp |-> timestamp, calls |-> <<>>]
                    ELSE buildPhoneLookup(FALSE, cache, timestamp, time, listing)
       IN  [contact |-> IF IsFailure(built.lookup) THEN built.lookup
                        ELSE MapGet(built.lookup, normalizePhone(phone)),
            cache |-> built.cache, timestamp |-> built.timestamp, calls |-> built.calls]

\* mutant: the phone is looked up as given
findContactByPhone_RawLookup(phone, phoneLookup, cache, timestamp, time, listing) ==
  IF ~Truthy(phone)
  THEN [contact |-> NoContact, cache |-> cache, timestamp |-> timestamp, calls |-> <<>>]
  ELSE LET built == IF IsMap(phoneLookup)
                    THEN [lookup |-> phoneLookup, cache |-> cache,
                          timestamp |-> timestamp, calls |-> <<>>]
                    ELSE buildPhoneLookup(FALSE, cache, timestamp, time, listing)
       IN  [contact |-> IF IsFailure(built.lookup) THEN NoContact
                        ELSE MapGet(built.lookup, phone),
            cache |-> built.cache, timestamp |-> built.timestamp, calls |-> built.calls]

\* mutant: the Map passed by the caller is not used
findContactByPhone_IgnoresPassed(phone, phoneLookup, cache, timestamp, time, listing) ==
  IF ~Truthy(phone)
  THEN [contact |-> NoContact, cache |-> cache, timestamp |-> timestamp, calls |-> <<>>]
  ELSE LET built == buildPhoneLookup(FALSE, cache, timestamp, time, listing)
       IN  [contact |-> IF IsFailure(built.lookup) THEN NoContact
                        ELSE MapGet(built.lookup, normalizePhone(phone)),
            cache |-> built.cache, timestamp |-> built.timestamp, calls |-> built.calls]

\* phoneLookup is the Map passed by the caller, or NoMap
findContactByPhone(phone, phoneLookup, cache, timestamp, time, listing) ==
  IF ~Truthy(phone)
  THEN [contact |-> NoContact, cache |-> cache, timestamp |-> timestamp, calls |-> <<>>]
  ELSE LET built == IF IsMap(phoneLookup)
                    THEN [lookup |-> phoneLookup, cache |-> cache,
                          timestamp |-> timestamp, calls |-> <<>>]
                    ELSE buildPhoneLookup(FALSE, cache, timestamp, time, listing)
       IN  [contact |-> IF IsFailure(built.lookup) THEN NoContact
                        ELSE MapGet(built.lookup, normalizePhone(phone)),
            cache |-> built.cache, timestamp |-> built.timestamp, calls |-> built.calls]

\* String.prototype.toLowerCase on the letters of the basic Latin alphabet
UpperCase == "ABCDEFGHIJKLMNOPQRSTUVWXYZ"
LowerCase == "abcdefghijklmnopqrstuvwxyz"

LowerChar(c) ==
  IF \E i \in 1..Len(UpperCase) : SubSeq(UpperCase, i, i) = c
  THEN LET i == CHOOSE i \in 1..Len(UpperCase) : SubSeq(UpperCase, i, i) = c
       IN  SubSeq(LowerCase, i, i)
  ELSE c

RECURSIVE toLowerCase(_)
toLowerCase(s) ==
  IF s = "" THEN "" ELSE LowerChar(Head(s)) \o toLowerCase(Tail(s))

\* for (const contact of lookup.values()) ... return contact
RECURSIVE ScanByEmail(_, _)
ScanByEmail(entries, email) ==
  IF entries = <<>> THEN NoContact
  ELSE LET contact == Head(entries).value
       IN  IF Truthy(Get(contact, "email"))
              /\ toLowerCase(contact.email) = toLowerCase(email)
           THEN contact
           ELSE ScanByEmail(Tail(entries), email)

findContactByEmail(email, phoneLookup, cache, timestamp, time, listing) ==
  IF ~Truthy(email)
  THEN [contact |-> NoContact, cache |-> cache, timestamp |-> timestamp, calls |-> <<>>]
  ELSE LET built == IF IsMap(phoneLookup)
                    THEN [lookup |-> phoneLookup, cache |-> cache,
                          timestamp |-> timestamp, calls |-> <<>>]
                    ELSE buildPhoneLookup(FALSE, cache, timestamp, time, listing)
       IN  [contact |-> IF IsFailure(built.lookup) THEN NoContact
                        ELSE ScanByEmail(built.lookup.entries, email),
            cache |-> built.cache, timestamp |-> built.timestamp, calls |-> built.calls]

(***************************************************************************)
(* lib/patchApi.js, and the Patch Retention service behind it              *)
(***************************************************************************)
\* b's properties over a's
Merge(a, b) == [k \in DOMAIN a \cup DOMAIN b |-> IF k \in DOMAIN b THEN b[k] ELSE a[k]]

\* error.message of a rejected axios request; status 0 is no response in time
RequestError(status) ==
  CASE status = 400 -> "Request failed with status code 400"
    [] status = 409 -> "Request failed with status code 409"
    [] status = 500 -> "Request failed with status code 500"
    [] OTHER        -> "timeout of 30000ms exceeded"

\* the service stores the posted contact under a fresh _id, marks it as made
\* through the API and stamps it
StoredContact(contactData, contacts, stamp) ==
  Merge(contactData, [_id |-> Len(contacts) + 1, channel |-> "API", updated_at |-> stamp])

createContact(contactData, status, stamp, contacts) ==
  IF status = 200
  THEN [response |-> StoredContact(contactData, contacts, stamp),
        contacts |-> Append(contacts, StoredContact(contactData, contacts, stamp))]
  ELSE [response |-> Failure("Failed to create contact: " \o RequestError(status)),
        contacts |-> contacts]

\* the service patches the addressed contact and stamps it
PatchedContact(contact, contactData, stamp) ==
  Merge(Merge(contact, contactData), [_id |-> contact._id, updated_at |-> stamp])

updateContact(contactId, contactData, status, stamp, contacts) ==
  IF status = 200
  THEN [response |-> PatchedContact(contacts[contactId], contactData, stamp),
        contacts |-> [contacts EXCEPT
                        ![contactId] = PatchedContact(@, contactData, stamp)]]
  ELSE [response |-> Failure("Failed to update contact: " \o RequestError(status)),
        contacts |-> contacts]

\* getAllContacts: every contact of the service, or the fetch fails
getAllContacts(listOk, contacts) ==
  IF listOk THEN [contacts |-> contacts]
  ELSE Failure("Failed to fetch contacts: " \o RequestError(500))

(***************************************************************************)
(* lib/sync.js: syncCustomer                                               *)
(*   options: phoneLookup (a Map or NoMap), isInitialSync,                 *)
(*            includeLastServiceDate                                       *)
(*   env:     what the collaborators answer during this call:              *)
(*            lastServiceDate (getLastServiceDate), listOk (contact        *)
(*            listing), status and stamp (the write)                       *)
(*   st:      downstream, contactsCache, cacheTimestamp, now               *)
(* Gives the result returned, the calls issued (each with what it was      *)
(* answered; an update also with the channel the addressed contact carries *)
(* at that moment) and the state afterwards.                               *)
(***************************************************************************)
\* Step 1: the payload, or the Failure raised by the transform
PatchData(customer, options, env) ==
  IF options.includeLastServiceDate
  THEN transformCustomer(customer, options.isInitialSync,
                         IF Truthy(Get(customer, "id")) THEN env.lastServiceDate ELSE NULL)
  ELSE transformCustomerSync(customer, options.isInitialSync)

JobsCalls(customer, options, env) ==
  IF options.includeLastServiceDate /\ Truthy(Get(customer, "id"))
  THEN <<[op |-> "jobs", resolved |-> env.lastServiceDate]>> ELSE <<>>

\* mutant: the required field checked is the name
HasPhone_NameChecked(patchData) == Truthy(Get(patchData, "first_name"))

\* Validate required fields
HasPhone(patchData) == Truthy(Get(patchData, "phone"))

\* Step 3: the decision is taken on the Housecall Pro customer as received
Decision(customer, existingContact) == decideMergeStrategy(customer, existingContact)

\* mutant: the catch block reports the record as skipped
ErrorResult_AsSkipped(failure, customer) ==
  [action |-> "skipped", reason |-> failure.message, customer |-> customer]

\* the catch block of syncCustomer
ErrorResult(failure, customer) ==
  [action |-> "error", error |-> failure.message, customer |-> customer]

\* Step 4, case 'create'
ExecuteCreate(patchData, customer, env, st) ==
  LET w == createContact(patchData, env.status, env.stamp, st.downstream)
  IN  [result |-> IF IsFailure(w.response) THEN ErrorResult(w.response, customer)
                  ELSE [action |-> "created", contact |-> w.response,
                        customer |-> customer],
       calls |-> <<[op |-> "create", payload |-> patchData, status |-> env.status]>>,
       downstream |-> w.contacts]

\* Step 4, case 'update'
ExecuteUpdate(decision, patchData, customer, env, st) ==
  LET w == updateContact(decision.contact._id, patchData, env.status, env.stamp,
                         st.downstream)
  IN  [result |-> IF IsFailure(w.response) THEN ErrorResult(w.response, customer)
                  ELSE [action |-> "updated", contact |-> w.response,
                        customer |-> customer],
       calls |-> <<[op |-> "update", id |-> decision.contact._id,
                    payload |-> patchData, status |-> env.status,
                    channel |-> Get(st.downstream[decision.contact._id], "channel")]>>,
       downstream |-> w.contacts]

\* Step 4, case 'skip'
ExecuteSkip(decision, customer, st) ==
  [result |-> [action |-> "skipped", contact |-> decision.contact,
               customer |-> customer],
   calls |-> <<>>,
   downstream |-> st.downstream]

\* mutant: the 'update' case lacks its return and falls through to 'skip'
ExecuteDecision_UpdateFallsThrough(decision, patchData, customer, env, st) ==
  CASE decision.action = "create" -> ExecuteCreate(patchData, customer, env, st)
    [] decision.action = "update" ->
         LET u == ExecuteUpdate(decision, patchData, customer, env, st)
         IN  IF u.result.action = "error" THEN u
             ELSE [result |-> ExecuteSkip(decision, customer, st).result,
                   calls |-> u.calls, downstream |-> u.downstream]
    [] OTHER -> ExecuteSkip(decision, customer, st)

\* Step 4
ExecuteDecision(decision, patchData, customer, env, st) ==
  CASE decision.action = "create" -> ExecuteCreate(patchData, customer, env, st)
    [] decision.action = "update" -> ExecuteUpdate(decision, patchData, customer, env, st)
    [] OTHER -> ExecuteSkip(decision, customer, st)

\* Steps 1 to 3: everything up to the decision; what the write is answered
\* plays no part in it
SyncPlan(customer, options, env, st) ==
  LET patchData == PatchData(customer, options, env)
      jobs == JobsCalls(customer, options, env)
  IN
  IF IsFailure(patchData)
  THEN [stage |-> "failed", patchData |-> patchData, calls |-> jobs,
        cache |-> st.contactsCache, timestamp |-> st.cacheTimestamp]
  ELSE IF ~HasPhone(patchData)
  THEN [stage |-> "no_phone", patchData |-> patchData, calls |-> jobs,
        cache |-> st.contactsCache, timestamp |-> st.cacheTimestamp]
  ELSE
    LET found == findContactByPhone(Get(patchData, "phone"), options.phoneLookup,
                                    st.contactsCache, st.cacheTimestamp, st.now,
                                    getAllContacts(env.listOk, st.downstream))
    IN  [stage |-> "decided", patchData |-> patchData,
         decision |-> Decision(customer, found.contact),
         calls |-> jobs \o found.calls,
         cache |-> found.cache, timestamp |-> found.timestamp]

\* the early returns, the catch block after a failed transform, and Step 4
SyncExecute(plan, customer, env, st) ==
  CASE plan.stage = "failed" ->
         [result |-> ErrorResult(plan.patchData, customer), calls |-> plan.calls,
          downstream |-> st.downstream, cache |-> plan.cache,
          timestamp |-> plan.timestamp]
    [] plan.stage = "no_phone" ->
         [result |-> [action |-> "skipped", reason |-> "no_phone",
                      customer |-> customer],
          calls |-> plan.calls, downstream |-> st.downstream,
          cache |-> plan.cache, timestamp |-> plan.timestamp]
    [] OTHER ->
         LET done == ExecuteDecision(plan.decision, plan.patchData, customer, env, st)
         IN  [result |-> done.result, calls |-> plan.calls \o done.calls,
              downstream |-> done.downstream, cache |-> plan.cache,
              timestamp |-> plan.timestamp]

syncCustomer(customer, options, env, st) ==
  SyncExecute(SyncPlan(customer, options, env, st), customer, env, st)

(***************************************************************************)
(* Bounds and enumerated inputs                                            *)
(***************************************************************************)
\* contacts the service holds at most
MaxContacts == 2
\* clock advances at most
MaxTicks == 3
\* Date.now() at start
StartTime == 1000

\* Housecall Pro customers
cAnn == [id |-> "c1", first_name |-> "Ann", last_name |-> "Lee",
         mobile_number |-> "+1 (801) 555-0100", email |-> "ann@x.io",
         addresses |-> <<[type |-> "service", street |-> "1 Main", city |-> "Provo",
                          state |-> "UT", zip |-> "84601"]>>,
         tags |-> <<"vip">>, updated_at |-> T2]
\* same number as cAnn, written differently; sparse and older
cBo  == [id |-> "c2", first_name |-> "Bo", home_number |-> "8015550100",
         updated_at |-> T0]
\* no phone
cCy  == [id |-> "c3", first_name |-> "Cy", email |-> "cy@x.io", updated_at |-> T1]

\* the customers webhooks are delivered for
WebhookCustomers == {cAnn, cCy}

\* the customer lists getAllCustomers resolves to
CustomerLists == {<<cBo, cCy, cAnn>>, <<cAnn, cBo>>}

\* what getLastServiceDate resolves to for a job.completed delivery
LastServiceDates == {NULL, T1, BadDate}

\* the status the service answers a write with
WriteStatuses == {200, 400, 409, 500}

\* the updated_at the service stamps a written contact with
ServerStamps == {T2}

\* a contact entered in Patch Retention by hand
SeedCurated == [_id |-> 1, first_name |-> "Ann", phone |-> "(801) 555-0100",
                channel |-> "Kiosk", updated_at |-> T0]
\* a contact an earlier sync created
SeedSynced == StoredContact(transformCustomerSync(cBo, TRUE), <<>>, T1)

\* what Patch Retention holds when the program starts
SeedDownstreams == {<<>>, <<SeedCurated>>, <<SeedSynced>>}

(***************************************************************************)
(* Initial state and operations                                            *)
(***************************************************************************)
NoResult == [action |-> "none"]
BulkIdle == [pc |-> "idle"]
ProbeOff == [pc |-> "off"]

St == [downstream |-> downstream, contactsCache |-> contactsCache,
       cacheTimestamp |-> cacheTimestamp, now |-> now]

Init ==
  /\ downstream \in SeedDownstreams
  /\ contactsCache = NoMap
  /\ cacheTimestamp = 0
  /\ now = StartTime
  /\ ticks = 0
  /\ bulk = BulkIdle
  /\ calls = <<>>
  /\ result = NoResult
  /\ probe = ProbeOff

IsWrite(call) == call.op \in {"create", "update"}

\* the answers the service can give to the write a plan leads to: a status,
\* and with 200 the updated_at it stamps
WriteAnswers(plan) ==
  IF plan.stage = "decided" /\ plan.decision.action \in {"create", "update"}
  THEN {[status |-> 200, stamp |-> t] : t \in ServerStamps}
       \cup {[status |-> s, stamp |-> NULL] : s \in WriteStatuses \ {200}}
  ELSE {[status |-> 200, stamp |-> NULL]}

Env(lastServiceDate, listOk, answer) ==
  [lastServiceDate |-> lastServiceDate, listOk |-> listOk,
   status |-> answer.status, stamp |-> answer.stamp]

\* api/sync.js handler, for an event that carries a customer: the customer is
\* synced against the index cached by this process
WebhookSync ==
  \E customer \in WebhookCustomers,
     event \in {"customer.created", "customer.updated", "job.completed"} :
  \E lastServiceDate \in IF event = "job.completed" THEN LastServiceDates ELSE {NULL},
     listOk \in IF CacheIsFresh(contactsCache, cacheTimestamp, now)
                THEN {TRUE} ELSE BOOLEAN :
    \E plan \in {SyncPlan(customer,
                           [phoneLookup |-> NoMap, isInitialSync |-> FALSE,
                            includeLastServiceDate |-> event = "job.completed"],
                           Env(lastServiceDate, listOk, [status |-> 200, stamp |-> NULL]),
                           St)} :
      \E answer \in WriteAnswers(plan) :
        \E out \in {SyncExecute(plan, customer,
                                Env(lastServiceDate, listOk, answer), St)} :
              /\ Len(out.downstream) <= MaxContacts
              /\ downstream' = out.downstream
              /\ contactsCache' = out.cache
              /\ cacheTimestamp' = out.timestamp
              /\ calls' = out.calls
              /\ result' = out.result
              /\ UNCHANGED <<now, ticks, bulk, probe>>

\* someone edits a contact in Patch Retention itself
ManualEdit ==
  \E i \in 1..Len(downstream) :
    /\ Get(downstream[i], "channel") # "Manual"
    /\ downstream' = [downstream EXCEPT ![i] = Merge(@, [channel |-> "Manual"])]
    /\ UNCHANGED <<contactsCache, cacheTimestamp, now, ticks, bulk, calls, result, probe>>

\* time passes, half a TTL at a time
Tick ==
  /\ ticks < MaxTicks
  /\ now' = now + (CACHE_TTL \div 2)
  /\ ticks' = ticks + 1
  /\ UNCHANGED <<downstream, contactsCache, cacheTimestamp, bulk, calls, result, probe>>

clearCache ==
  /\ IsMap(contactsCache)
  /\ contactsCache' = NoMap
  /\ cacheTimestamp' = 0
  /\ UNCHANGED <<downstream, now, ticks, bulk, calls, result, probe>>

Next ==
  \/ WebhookSync
  \/ ManualEdit
  \/ Tick
  \/ clearCache

Spec == Init /\ [][Next]_vars

(***************************************************************************)
(* scripts/bulkSync.js and lib/sync.js syncBatch.  The migration runs in   *)
(* a process of its own, with its own dedup.js module state (bulk.cache,   *)
(* bulk.timestamp).                                                        *)
(***************************************************************************)
BATCH_SIZE == 50

EmptyResults == [created |-> 0, updated |-> 0, skipped |-> 0, errors |-> 0,
                 details |-> <<>>]

\* mutant: the switch has no case 'error'
Tally_NoErrorCase(results, r) ==
  [created |-> results.created + (IF r.action = "created" THEN 1 ELSE 0),
   updated |-> results.updated + (IF r.action = "updated" THEN 1 ELSE 0),
   skipped |-> results.skipped + (IF r.action = "skipped" THEN 1 ELSE 0),
   errors  |-> results.errors,
   details |-> Append(results.details, r)]

\* results.details.push(result) and the switch on result.action
Tally(results, r) ==
  [created |-> results.created + (IF r.action = "created" THEN 1 ELSE 0),
   updated |-> results.updated + (IF r.action = "updated" THEN 1 ELSE 0),
   skipped |-> results.skipped + (IF r.action = "skipped" THEN 1 ELSE 0),
   errors  |-> results.errors + (IF r.action = "error" THEN 1 ELSE 0),
   details |-> Append(results.details, r)]

\* mutant: a failed index build is logged and the batch runs without an index
runBulkSync_WithoutIndex ==
  \E allCustomers \in CustomerLists, sourceOk \in BOOLEAN, listOk \in BOOLEAN :
    LET built == buildPhoneLookup(TRUE, NoMap, 0, now, getAllContacts(listOk, downstream))
    IN  /\ bulk.pc = "idle"
        /\ sourceOk \/ listOk
        /\ bulk' = IF ~sourceOk
                   THEN [pc |-> "failed"]
                   ELSE [pc |-> "batch",
                         customers |-> SubSeq(allCustomers, 1,
                                              IF Len(allCustomers) < BATCH_SIZE
                                              THEN Len(allCustomers) ELSE BATCH_SIZE),
                         phoneLookup |-> IF IsFailure(built.lookup) THEN NoMap
                                         ELSE built.lookup,
                         cache |-> built.cache, timestamp |-> built.timestamp,
                         i |-> 1, results |-> EmptyResults, run |-> 1]
        /\ calls' = <<[op |-> "customers"]>> \o (IF sourceOk THEN built.calls ELSE <<>>)
        /\ result' = NoResult
        /\ UNCHANGED <<downstream, contactsCache, cacheTimestamp, now, ticks, probe>>

\* Steps 1 and 2 of runBulkSync, and the first batch handed to syncBatch
runBulkSync ==
  \E allCustomers \in CustomerLists, sourceOk \in BOOLEAN, listOk \in BOOLEAN :
    LET built == buildPhoneLookup(TRUE, NoMap, 0, now, getAllContacts(listOk, downstream))
    IN  /\ bulk.pc = "idle"
        /\ sourceOk \/ listOk
        /\ bulk' = IF ~sourceOk \/ IsFailure(built.lookup)
                   THEN [pc |-> "failed"]
                   ELSE [pc |-> "batch",
                         customers |-> SubSeq(allCustomers, 1,
                                              IF Len(allCustomers) < BATCH_SIZE
                                              THEN Len(allCustomers) ELSE BATCH_SIZE),
                         phoneLookup |-> built.lookup,
                         cache |-> built.cache, timestamp |-> built.timestamp,
                         i |-> 1, results |-> EmptyResults, run |-> 1]
        /\ calls' = <<[op |-> "customers"]>> \o (IF sourceOk THEN built.calls ELSE <<>>)
        /\ result' = NoResult
        /\ UNCHANGED <<downstream, contactsCache, cacheTimestamp, now, ticks, probe>>

\* one iteration of the loop of syncBatch
syncBatchStep ==
  /\ bulk.pc = "batch"
  /\ bulk.i <= Len(bulk.customers)
  /\ LET customer == bulk.customers[bulk.i]
         options == [phoneLookup |-> bulk.phoneLookup, isInitialSync |-> TRUE,
                     includeLastServiceDate |-> FALSE]
         st == [downstream |-> downstream, contactsCache |-> bulk.cache,
                cacheTimestamp |-> bulk.timestamp, now |-> now]
     IN  \E plan \in {SyncPlan(customer, options,
                                Env(NULL, TRUE, [status |-> 200, stamp |-> NULL]), st)} :
         \E answer \in WriteAnswers(plan) :
         \E out \in {SyncExecute(plan, customer, Env(NULL, TRUE, answer), st)} :
               /\ Len(out.downstream) <= MaxContacts
               /\ downstream' = out.downstream
               /\ bulk' = [bulk EXCEPT !.i = @ + 1,
                                       !.results = Tally(@, out.result),
                                       !.cache = out.cache,
                                       !.timestamp = out.timestamp]
               /\ calls' = out.calls
               /\ result' = out.result
  /\ UNCHANGED <<contactsCache, cacheTimestamp, now, ticks, probe>>

\* syncBatch returns its results
syncBatchReturn ==
  /\ bulk.pc = "batch"
  /\ bulk.i > Len(bulk.customers)
  /\ bulk' = [bulk EXCEPT !.pc = "done"]
  /\ UNCHANGED <<downstream, contactsCache, cacheTimestamp, now, ticks, calls, result, probe>>

\* the script is run a second time on the unchanged customer list ("Run bulk
\* sync again"): a new process, the index rebuilt from what Patch Retention
\* holds by now
runBulkSyncAgain ==
  /\ bulk.pc = "done"
  /\ bulk.run = 1
  /\ \E listOk \in BOOLEAN :
       \E built \in {buildPhoneLookup(TRUE, NoMap, 0, now,
                                      getAllContacts(listOk, downstream))} :
         /\ bulk' = IF IsFailure(built.lookup)
                    THEN [pc |-> "failed"]
                    ELSE [pc |-> "batch", customers |-> bulk.customers,
                          phoneLookup |-> built.lookup,
                          cache |-> built.cache, timestamp |-> built.timestamp,
                          i |-> 1, results |-> EmptyResults, run |-> 2,
                          first |-> bulk.results]
         /\ calls' = <<[op |-> "customers"]>> \o built.calls
  /\ result' = NoResult
  /\ UNCHANGED <<downstream, contactsCache, cacheTimestamp, now, ticks, probe>>

BulkNext ==
  \/ runBulkSync
  \/ runBulkSyncAgain
  \/ syncBatchStep
  \/ syncBatchReturn
  \/ ManualEdit
  \/ Tick

SpecBulk == Init /\ [][BulkNext]_vars

(***************************************************************************)
(* The merge decision of syncCustomer on enumerated inputs: every customer *)
(* of ProbeCustomers against every contact of ProbeContacts, or none       *)
(***************************************************************************)
ProbeAddresses ==
  { <<>>,
    <<[type |-> "billing", city |-> "Orem", state |-> "UT"]>>,
    <<[type |-> "billing", city |-> "Orem"],
      [type |-> "service", street |-> "1 Main", city |-> "Provo", zip |-> "84601"]>> }

ProbeCustomers ==
  [first_name : {BLANK, "Ann"}, last_name : {"Lee"},
   mobile_number : {NULL, "+1 (801) 555-0100"}, home_number : {"8015550100"},
   email : {NULL, "ann@x.io"}, addresses : ProbeAddresses,
   tags : {<<>>, <<"vip">>},
   updated_at : {NULL, BadDate, T0, T0local, T1}]

ProbeContacts ==
  [_id : {1}, first_name : {NULL, "Ann"}, phone : {"8015550100"},
   email : {NULL, "ann@x.io"}, city : {NULL, "Provo"}, address : {"", "1 Main"},
   tags : {<<>>, <<"vip">>},
   channel : {NULL, "", "API", "Manual"},
   updated_at : {NULL, BadDate, T0, T1}]

ProbeInit ==
  /\ downstream = <<>>
  /\ contactsCache = NoMap
  /\ cacheTimestamp = 0
  /\ now = StartTime
  /\ ticks = 0
  /\ bulk = BulkIdle
  /\ calls = <<>>
  /\ result = NoResult
  /\ probe \in {[pc |-> "input", customer |-> c, existing |-> e] :
                   c \in ProbeCustomers, e \in ProbeContacts \cup {NoContact}}

\* syncCustomer, Step 1
ProbeTransform ==
  /\ probe.pc = "input"
  /\ probe' = Merge(probe, [pc |-> "transformed",
                            payload |-> transformCustomerSync(probe.customer, FALSE)])
  /\ UNCHANGED <<downstream, contactsCache, cacheTimestamp, now, ticks, bulk, calls, result>>

\* syncCustomer, Step 3
ProbeDecide ==
  /\ probe.pc = "transformed"
  /\ probe' = Merge(probe, [pc |-> "decided",
                            decision |-> Decision(probe.customer, probe.existing)])
  /\ UNCHANGED <<downstream, contactsCache, cacheTimestamp, now, ticks, bulk, calls, result>>

ProbeNext == ProbeTransform \/ ProbeDecide

SpecDecide == ProbeInit /\ [][ProbeNext]_vars

(***************************************************************************)
(* One call of syncCustomer on enumerated inputs: every customer of        *)
(* SyncOneCustomers and every combination of options, from states in which *)
(* the service holds seed contacts (some edited by hand since they were    *)
(* indexed) and the index passed or cached was built from them.            *)
(***************************************************************************)
\* a phone without a digit, and no id
cDot == [first_name |-> "Dot", mobile_number |-> "n/a", updated_at |-> T1]

SyncOneCustomers == {cAnn, cBo, cCy, cDot}

\* a second contact with the number of SeedSynced
SeedTwin == StoredContact(transformCustomerSync(cAnn, FALSE), <<SeedSynced>>, T1)

SyncOneBases == {<<>>, <<SeedCurated>>, <<SeedSynced>>, <<SeedSynced, SeedTwin>>}

\* contacts as they are, or with one of them edited by hand
Edited(contacts) ==
  {contacts} \cup {[contacts EXCEPT ![i] = Merge(@, [channel |-> "Manual"])] :
                     i \in 1..Len(contacts)}

\* the indexes built while the service held the first k of the contacts
Indexes(contacts) == {IndexContacts(SubSeq(contacts, 1, k)) : k \in 0..Len(contacts)}

SyncOneInit ==
  /\ \E base \in SyncOneBases :
       /\ downstream \in Edited(base)
       /\ contactsCache \in {NoMap} \cup Indexes(base)
       /\ probe \in [pc : {"call"}, customer : SyncOneCustomers,
                      options : [phoneLookup : {NoMap} \cup Indexes(base),
                                 isInitialSync : BOOLEAN,
                                 includeLastServiceDate : BOOLEAN]]
  /\ cacheTimestamp = IF IsMap(contactsCache) THEN StartTime ELSE 0
  /\ now \in {StartTime + (CACHE_TTL \div 2), StartTime + CACHE_TTL}
  /\ ticks = 0
  /\ bulk = BulkIdle
  /\ calls = <<>>
  /\ result = NoResult

SyncOne ==
  /\ probe.pc = "call"
  /\ \E lastServiceDate \in IF probe.options.includeLastServiceDate
                             THEN LastServiceDates ELSE {NULL},
        listOk \in IF IsMap(probe.options.phoneLookup)
                      \/ CacheIsFresh(contactsCache, cacheTimestamp, now)
                   THEN {TRUE} ELSE BOOLEAN :
       \E plan \in {SyncPlan(probe.customer, probe.options,
                              Env(lastServiceDate, listOk,
                                  [status |-> 200, stamp |-> NULL]), St)} :
         \E answer \in WriteAnswers(plan) :
           \E out \in {SyncExecute(plan, probe.customer,
                                   Env(lastServiceDate, listOk, answer), St)} :
                 /\ downstream' = out.downstream
                 /\ contactsCache' = out.cache
                 /\ cacheTimestamp' = out.timestamp
                 /\ calls' = out.calls
                 /\ result' = out.result
  /\ probe' = [probe EXCEPT !.pc = "returned"]
  /\ UNCHANGED <<now, ticks, bulk>>

SpecSyncOne == SyncOneInit /\ [][SyncOne]_vars

(***************************************************************************)
(* Two webhook deliveries handled by one process at the same time.  An     *)
(* invocation is suspended at its network calls: once it has resolved its  *)
(* match (Steps 1 to 3) the other may run before its write goes out.       *)
(* probe.inv[k] is invocation k; held is what Patch Retention held when    *)
(* the invocation resolved its match.                                      *)
(***************************************************************************)
RaceCustomers == {cAnn, cBo}

WebhookOptions == [phoneLookup |-> NoMap, isInitialSync |-> FALSE,
                   includeLastServiceDate |-> FALSE]

RaceInit ==
  /\ downstream \in SeedDownstreams
  /\ contactsCache = NoMap
  /\ cacheTimestamp = 0
  /\ now = StartTime
  /\ ticks = 0
  /\ bulk = BulkIdle
  /\ calls = <<>>
  /\ result = NoResult
  /\ probe \in {[pc |-> "race",
                 inv |-> <<[pc |-> "start", customer |-> c1],
                           [pc |-> "start", customer |-> c2]>>] :
                  c1 \in RaceCustomers, c2 \in RaceCustomers}

\* syncCustomer Steps 1 to 3 of one invocation
RaceResolve ==
  \E k \in 1..2 :
    /\ probe.inv[k].pc = "start"
    /\ \E listOk \in IF CacheIsFresh(contactsCache, cacheTimestamp, now)
                     THEN {TRUE} ELSE BOOLEAN :
         \E plan \in {SyncPlan(probe.inv[k].customer, WebhookOptions,
                               Env(NULL, listOk, [status |-> 200, stamp |-> NULL]),
                               St)} :
           /\ probe' = [probe EXCEPT !.inv[k] =
                          [pc |-> "resolved", customer |-> @.customer,
                           plan |-> plan, held |-> downstream]]
           /\ contactsCache' = plan.cache
           /\ cacheTimestamp' = plan.timestamp
           /\ calls' = plan.calls
    /\ UNCHANGED <<downstream, now, ticks, bulk, result>>

\* syncCustomer Step 4 of one invocation
RaceWrite ==
  \E k \in 1..2 :
    /\ probe.inv[k].pc = "resolved"
    /\ \E answer \in WriteAnswers(probe.inv[k].plan) :
         \E out \in {SyncExecute(probe.inv[k].plan, probe.inv[k].customer,
                                 Env(NULL, TRUE, answer), St)} :
           /\ Len(out.downstream) <= MaxContacts
           /\ downstream' = out.downstream
           /\ probe' = [probe EXCEPT !.inv[k] =
                          Merge(@, [pc |-> "done", result |-> out.result])]
           /\ calls' = SubSeq(out.calls, Len(probe.inv[k].plan.calls) + 1,
                              Len(out.calls))
           /\ result' = out.result
    /\ UNCHANGED <<contactsCache, cacheTimestamp, now, ticks, bulk>>

RaceNext ==
  \/ RaceResolve
  \/ RaceWrite
  \/ Tick
  \/ clearCache

SpecRace == RaceInit /\ [][RaceNext]_vars

(***************************************************************************)
(* lib/dedup.js called directly: buildPhoneLookup, findContactByPhone and  *)
(* findContactByEmail against the module's cache, while time passes and    *)
(* contacts are edited in Patch Retention.  probe keeps the last call:     *)
(* its arguments, the module state before and after, what Patch Retention  *)
(* held, what was returned; probe.fetched is the listing the cached index  *)
(* was built from.                                                         *)
(***************************************************************************)
\* contacts of Patch Retention: two with one number written differently, one
\* without a phone, one whose phone has no digit
kAnn == [first_name |-> "Ann", phone |-> "(801) 555-0100", email |-> "Ann@X.io",
         channel |-> "API"]
kBo  == [first_name |-> "Bo", phone |-> "+1 801-555-0100", email |-> "bo@x.io",
         channel |-> "API"]
kCy  == [first_name |-> "Cy", email |-> "cy@x.io", channel |-> "API"]
kDot == [first_name |-> "Dot", phone |-> "n/a", email |-> "dot@x.io",
         channel |-> "API"]

IndexPool == {kAnn, kBo, kCy, kDot}

\* the _id of a contact is its position in the account
WithIds(contacts) == [i \in 1..Len(contacts) |-> Merge(contacts[i], [_id |-> i])]

IndexDownstreams ==
  {<<>>} \cup {WithIds(<<a>>) : a \in IndexPool}
         \cup {WithIds(<<a, b>>) : a \in IndexPool, b \in IndexPool}

LookupPhones == {NULL, "n/a", "+1 (801) 555-0100"}
LookupEmails == {NULL, "ann@x.io", "CY@X.IO"}

IndexInit ==
  /\ downstream \in IndexDownstreams
  /\ contactsCache = NoMap
  /\ cacheTimestamp = 0
  /\ now = StartTime
  /\ ticks = 0
  /\ bulk = BulkIdle
  /\ calls = <<>>
  /\ result = NoResult
  /\ probe = [pc |-> "index", op |-> "none", fetched |-> <<>>]

\* whether a call sequence holds a listing fetch answered as given
Fetched(callSeq, ok) ==
  \E c \in 1..Len(callSeq) : callSeq[c].op = "list" /\ callSeq[c].ok = ok

\* the record of a call of one of the three functions
CallRecord(op, args, passed, out, returned) ==
  [pc |-> "index", op |-> op, args |-> args, passed |-> passed,
   time |-> now, held |-> downstream,
   cacheBefore |-> contactsCache, timestampBefore |-> cacheTimestamp,
   cacheAfter |-> out.cache, timestampAfter |-> out.timestamp,
   calls |-> out.calls, returned |-> returned,
   fetched |-> IF Fetched(out.calls, TRUE) THEN downstream ELSE probe.fetched]

\* the indexes a caller can pass: none, or the one the module has cached
PassableIndexes == {NoMap, contactsCache}

ListAnswers(forceRefresh, passed) ==
  IF IsMap(passed) \/ (~forceRefresh /\ CacheIsFresh(contactsCache, cacheTimestamp, now))
  THEN {TRUE} ELSE BOOLEAN

\* no call of the three functions is in progress
IndexIdle == probe.pc = "index" /\ probe.op = "none"

BuildLookup ==
  /\ IndexIdle
  /\ \E forceRefresh \in BOOLEAN :
     \E listOk \in ListAnswers(forceRefresh, NoMap) :
     \E out \in {buildPhoneLookup(forceRefresh, contactsCache, cacheTimestamp, now,
                                  getAllContacts(listOk, downstream))} :
       /\ contactsCache' = out.cache
       /\ cacheTimestamp' = out.timestamp
       /\ calls' = out.calls
       /\ probe' = CallRecord("build", [forceRefresh |-> forceRefresh], NoMap,
                              out, out.lookup)
  /\ UNCHANGED <<downstream, now, ticks, bulk, result>>

FindByPhone ==
  /\ IndexIdle
  /\ \E phone \in LookupPhones, passed \in PassableIndexes :
     \E listOk \in ListAnswers(FALSE, passed) :
     \E out \in {findContactByPhone(phone, passed, contactsCache, cacheTimestamp, now,
                                    getAllContacts(listOk, downstream))} :
       /\ contactsCache' = out.cache
       /\ cacheTimestamp' = out.timestamp
       /\ calls' = out.calls
       /\ probe' = CallRecord("findPhone", [phone |-> phone], passed, out, out.contact)
  /\ UNCHANGED <<downstream, now, ticks, bulk, result>>

FindByEmail ==
  /\ IndexIdle
  /\ \E email \in LookupEmails, passed \in PassableIndexes :
     \E listOk \in ListAnswers(FALSE, passed) :
     \E out \in {findContactByEmail(email, passed, contactsCache, cacheTimestamp, now,
                                    getAllContacts(listOk, downstream))} :
       /\ contactsCache' = out.cache
       /\ cacheTimestamp' = out.timestamp
       /\ calls' = out.calls
       /\ probe' = CallRecord("findEmail", [email |-> email], passed, out, out.contact)
  /\ UNCHANGED <<downstream, now, ticks, bulk, result>>

\* the call returns to its caller
IndexReturn ==
  /\ probe.pc = "index"
  /\ probe.op # "none"
  /\ probe' = [pc |-> "index", op |-> "none", fetched |-> probe.fetched]
  /\ UNCHANGED <<downstream, contactsCache, cacheTimestamp, now, ticks, bulk, calls, result>>

\* between two calls time passes, the cache is cleared, contacts are edited
BetweenCalls ==
  /\ IndexIdle
  /\ (Tick \/ clearCache \/ ManualEdit)

IndexNext ==
  \/ BuildLookup
  \/ FindByPhone
  \/ FindByEmail
  \/ IndexReturn
  \/ BetweenCalls

SpecIndex == IndexInit /\ [][IndexNext]_vars

(***************************************************************************)
(* normalizePhone on enumerated inputs                                     *)
(***************************************************************************)
PhonePrefixes == {"", "+1 ", "1", "1-", "+"}
PhoneBodies == {"(801) 555-0100", "8015550100", "555-0100", "5550100",
                "28015550100", "801.555.01"}
PhoneSuffixes == {"", " x", "9"}

PhoneInputs ==
  {NULL, "", "n/a"}
    \cup {p \o b \o x : p \in PhonePrefixes, b \in PhoneBodies, x \in PhoneSuffixes}

NormalizeInit ==
  /\ downstream = <<>>
  /\ contactsCache = NoMap
  /\ cacheTimestamp = 0
  /\ now = StartTime
  /\ ticks = 0
  /\ bulk = BulkIdle
  /\ calls = <<>>
  /\ result = NoResult
  /\ probe \in {[pc |-> "phone", phone |-> p] : p \in PhoneInputs}

NormalizeCall ==
  /\ probe.pc = "phone"
  /\ probe' = [pc |-> "normalized", phone |-> probe.phone,
               normalized |-> normalizePhone(probe.phone)]
  /\ UNCHANGED <<downstream, contactsCache, cacheTimestamp, now, ticks, bulk, calls, result>>

SpecNormalize == NormalizeInit /\ [][NormalizeCall]_vars

(***************************************************************************)
(* The transform on enumerated inputs: Step 1 of syncCustomer for every    *)
(* combination of options, next to transformCustomerSync and to            *)
(* transformCustomer called with includeLastServiceDate false              *)
(***************************************************************************)
TransformAddresses ==
  LET billing == [type |-> "billing", street |-> "9 Elm", city |-> "Orem",
                  state |-> "UT", zip |-> "84057"]
      service == [type |-> "service", street |-> "1 Main", street_line_2 |-> "Apt 2",
                  city |-> "Provo", state |-> "ID", zip |-> "84601"]
      second  == [type |-> "service", city |-> "Lehi", zip |-> "84043"]
      bare    == [type |-> "service", street_line_2 |-> "Rear"]
  IN  { <<>>, <<billing>>, <<billing, service>>, <<second, service>>,
        <<billing, bare>>, <<billing, service, second>> }

TransformInit ==
  /\ downstream = <<>>
  /\ contactsCache = NoMap
  /\ cacheTimestamp = 0
  /\ now = StartTime
  /\ ticks = 0
  /\ bulk = BulkIdle
  /\ calls = <<>>
  /\ result = NoResult
  /\ probe \in [pc : {"input"},
                customer : [id : {NULL, "c1"}, first_name : {"", "Ann"},
                            mobile_number : {NULL, "8015550100"},
                            email : {NULL, "", "ann@x.io"},
                            addresses : TransformAddresses,
                            tags : {<<>>, <<"vip", "vip">>, <<"ZIP:84601">>,
                                    <<"Sync:initial", "vip">>,
                                    <<"LastService:2024-01-01">>}],
                options : [isInitialSync : BOOLEAN, includeLastServiceDate : BOOLEAN],
                lastServiceDate : LastServiceDates]

\* Step 1 of syncCustomer, and the two transforms called directly
TransformCall ==
  /\ probe.pc = "input"
  /\ \E env \in {[lastServiceDate |-> probe.lastServiceDate]} :
       probe' = Merge(probe,
                      [pc |-> "transformed",
                       jobs |-> JobsCalls(probe.customer, probe.options, env),
                       payload |-> PatchData(probe.customer, probe.options, env),
                       sync |-> transformCustomerSync(probe.customer,
                                                      probe.options.isInitialSync),
                       optedOut |-> transformCustomer(probe.customer,
                                                      probe.options.isInitialSync, NULL)])
  /\ UNCHANGED <<downstream, contactsCache, cacheTimestamp, now, ticks, bulk, calls, result>>

SpecTransform == TransformInit /\ [][TransformCall]_vars

(***************************************************************************)
(* api/sync.js: the two handlers of the file on enumerated deliveries.     *)
(* A request is [method, body]; a body is a record that may lack event and *)
(* data, or [none |-> TRUE] when the request carries none.  result is the  *)
(* response sent, probe the delivery handled last.                         *)
(***************************************************************************)
HandlerBodies ==
  { [none |-> TRUE],
    [data |-> cAnn],
    [event |-> "invoice.paid", data |-> cAnn],
    [event |-> "ping"],
    [event |-> "customer.created"],
    [event |-> "job.completed"],
    [event |-> "job.completed", data |-> [id |-> "j1"]],
    [event |-> "customer.updated", data |-> [id |-> "c9", mobile_number |-> "8015550100"]],
    [event |-> "job.completed", data |-> [customer |-> [id |-> "c9"]]],
    [event |-> "customer.created", data |-> cAnn],
    [event |-> "customer.updated", data |-> cCy],
    [event |-> "job.completed", data |-> [customer |-> cAnn]] }

Respond(status, success, message) ==
  [message |-> message, status |-> status, success |-> success]

\* mutant: the method is not looked at
Route_AnyMethod(req) ==
  IF "none" \in DOMAIN req.body THEN Respond(500, FALSE, "TypeError")
  ELSE LET event == Get(req.body, "event")
           hasData == "data" \in DOMAIN req.body
       IN  IF event \in {"customer.created", "customer.updated"}
           THEN IF hasData /\ Truthy(Get(req.body.data, "first_name"))
                THEN [sync |-> TRUE, customer |-> req.body.data, event |-> event]
                ELSE Respond(400, FALSE, "Invalid customer data")
           ELSE IF event = "job.completed"
           THEN IF ~hasData THEN Respond(500, FALSE, "TypeError")
                ELSE IF "customer" \in DOMAIN req.body.data
                        /\ Truthy(Get(req.body.data.customer, "first_name"))
                THEN [sync |-> TRUE, customer |-> req.body.data.customer, event |-> event]
                ELSE Respond(400, FALSE, "Invalid customer data")
           ELSE Respond(200, TRUE, "Event type not handled")

\* the handler up to its validation: the response it returns there, or the
\* customer it goes on to sync.  req.body without a body, and data.customer
\* without data, raise a TypeError that the catch block answers.
Route(req) ==
  IF req.method # "POST" THEN Respond(405, FALSE, "Method not allowed")
  ELSE IF "none" \in DOMAIN req.body THEN Respond(500, FALSE, "TypeError")
  ELSE LET event == Get(req.body, "event")
           hasData == "data" \in DOMAIN req.body
       IN  IF event \in {"customer.created", "customer.updated"}
           THEN IF hasData /\ Truthy(Get(req.body.data, "first_name"))
                THEN [sync |-> TRUE, customer |-> req.body.data, event |-> event]
                ELSE Respond(400, FALSE, "Invalid customer data")
           ELSE IF event = "job.completed"
           THEN IF ~hasData THEN Respond(500, FALSE, "TypeError")
                ELSE IF "customer" \in DOMAIN req.body.data
                        /\ Truthy(Get(req.body.data.customer, "first_name"))
                THEN [sync |-> TRUE, customer |-> req.body.data.customer, event |-> event]
                ELSE Respond(400, FALSE, "Invalid customer data")
           ELSE Respond(200, TRUE, "Event type not handled")

\* the same for the CommonJS handler of the file
RouteInline(req) ==
  IF req.method # "POST" THEN Respond(405, FALSE, "Method not allowed")
  ELSE IF "none" \in DOMAIN req.body THEN Respond(500, FALSE, "TypeError")
  ELSE LET event == Get(req.body, "event")
           hasData == "data" \in DOMAIN req.body
       IN  IF ~Truthy(event) \/ event \in {"test", "ping"} \/ ~hasData
           THEN Respond(200, TRUE, "Webhook endpoint is working! Test received.")
           ELSE IF event \in {"customer.created", "customer.updated", "job.completed"}
           THEN LET holder == IF event = "job.completed" THEN req.body.data
                              ELSE [customer |-> req.body.data]
                IN  IF "customer" \in DOMAIN holder
                       /\ Truthy(Get(holder.customer, "first_name"))
                    THEN [sync |-> TRUE, customer |-> holder.customer, event |-> event]
                    ELSE Respond(200, TRUE, "No customer data to sync")
           ELSE Respond(200, TRUE, "Event type not handled, but webhook is working")

\* the syncCustomer the CommonJS handler carries with it: no lookup, always
\* a create; configured is whether PATCH_API_KEY is set
syncCustomerInline(customer, configured, status, stamp, contacts) ==
  LET patchContact ==
        Merge([first_name |-> OrElse(Get(customer, "first_name"), ""),
               last_name  |-> OrElse(Get(customer, "last_name"), ""),
               phone      |-> OrElse(Get(customer, "mobile_number"),
                                     OrElse(Get(customer, "home_number"), "")),
               email      |-> OrElse(Get(customer, "email"), ""),
               tags       |-> <<"Source:housecallpro", "Sync:realtime">>],
              IF HasAddresses(customer) /\ Truthy(Get(customer.addresses[1], "city"))
              THEN [city |-> customer.addresses[1].city] ELSE <<>>)
      post == <<[op |-> "create", payload |-> patchContact, status |-> status]>>
  IN  IF ~configured
      THEN [result |-> Failure("PATCH_API_KEY not configured"), calls |-> <<>>,
            downstream |-> contacts]
      ELSE IF ~Truthy(patchContact.phone)
      THEN [result |-> [action |-> "skipped", reason |-> "no_phone"], calls |-> <<>>,
            downstream |-> contacts]
      ELSE IF status = 200
      THEN [result |-> [action |-> "created",
                        contact |-> StoredContact(patchContact, contacts, stamp)],
            calls |-> post,
            downstream |-> Append(contacts, StoredContact(patchContact, contacts, stamp))]
      ELSE IF status \in {400, 409}
      THEN [result |-> [action |-> "skipped", reason |-> "duplicate_or_validation"],
            calls |-> post, downstream |-> contacts]
      ELSE [result |-> Failure(RequestError(status)), calls |-> post,
            downstream |-> contacts]

\* mutant: a sync that ended in error is reported as failed
responseMessage_ErrorSaid(action) ==
  CASE action = "created" -> "Customer synced to Patch Retention (created)"
    [] action = "updated" -> "Customer synced to Patch Retention (updated)"
    [] action = "error"   -> "Customer sync failed"
    [] OTHER              -> "Customer sync skipped (no changes needed)"

\* const responseMessage = result.action === 'created' ? ... : ...
responseMessage(action) ==
  CASE action = "created" -> "Customer synced to Patch Retention (created)"
    [] action = "updated" -> "Customer synced to Patch Retention (updated)"
    [] OTHER              -> "Customer sync skipped (no changes needed)"

\* the same in the CommonJS handler
responseMessageInline(action) ==
  IF action = "created" THEN "Customer synced to Patch Retention (created)"
  ELSE "Customer sync skipped (already exists or no phone)"

HandlerRequests == [method : {"POST", "GET"}, body : HandlerBodies]

\* export default async function handler(req, res)
handler ==
  \E req \in HandlerRequests :
  \E route \in {Route(req)} :
    /\ probe' = [pc |-> "handled", version |-> "esm", request |-> req]
    /\ IF "sync" \notin DOMAIN route
       THEN /\ result' = route
            /\ calls' = <<>>
            /\ UNCHANGED <<downstream, contactsCache, cacheTimestamp>>
       ELSE \E lastServiceDate \in IF route.event = "job.completed"
                                   THEN LastServiceDates ELSE {NULL},
               listOk \in IF CacheIsFresh(contactsCache, cacheTimestamp, now)
                          THEN {TRUE} ELSE BOOLEAN :
            \E options \in {[phoneLookup |-> NoMap, isInitialSync |-> FALSE,
                             includeLastServiceDate |-> route.event = "job.completed"]} :
            \E plan \in {SyncPlan(route.customer, options,
                                   Env(lastServiceDate, listOk,
                                       [status |-> 200, stamp |-> NULL]), St)} :
            \E answer \in WriteAnswers(plan) :
            \E out \in {SyncExecute(plan, route.customer,
                                    Env(lastServiceDate, listOk, answer), St)} :
              /\ Len(out.downstream) <= MaxContacts
              /\ downstream' = out.downstream
              /\ contactsCache' = out.cache
              /\ cacheTimestamp' = out.timestamp
              /\ calls' = out.calls
              /\ result' = Merge(Respond(200, TRUE, responseMessage(out.result.action)),
                                 [action |-> out.result.action])
    /\ UNCHANGED <<now, ticks, bulk>>

\* module.exports = async function handler(req, res)
handlerInline ==
  \E req \in HandlerRequests :
  \E route \in {RouteInline(req)} :
    /\ probe' = [pc |-> "handled", version |-> "cjs", request |-> req]
    /\ IF "sync" \notin DOMAIN route
       THEN /\ result' = route
            /\ calls' = <<>>
            /\ UNCHANGED downstream
       ELSE \E configured \in BOOLEAN, status \in WriteStatuses, stamp \in ServerStamps :
            \E out \in {syncCustomerInline(route.customer, configured, status, stamp,
                                           downstream)} :
              /\ Len(out.downstream) <= MaxContacts
              /\ downstream' = out.downstream
              /\ calls' = out.calls
              /\ result' = IF IsFailure(out.result)
                           THEN Respond(500, FALSE, out.result.message)
                           ELSE Merge(Respond(200, TRUE,
                                              responseMessageInline(out.result.action)),
                                      [action |-> out.result.action])
    /\ UNCHANGED <<contactsCache, cacheTimestamp, now, ticks, bulk>>

HandlerNext == handler \/ handlerInline

SpecHandler == Init /\ [][HandlerNext]_vars

(***************************************************************************)
(* calculateCompleteness on enumerated contacts                            *)
(***************************************************************************)
ScoreInit ==
  /\ downstream = <<>>
  /\ contactsCache = NoMap
  /\ cacheTimestamp = 0
  /\ now = StartTime
  /\ ticks = 0
  /\ bulk = BulkIdle
  /\ calls = <<>>
  /\ result = NoResult
  /\ probe \in [pc : {"contact"},
                contact : [first_name : {NULL, BLANK, "Ann"}, last_name : {NULL, "Lee"},
                           phone : {"", "8015550100"}, email : {NULL, "ann@x.io"},
                           city : {NULL, BLANK, "Provo"}, street : {NULL, "1 Main"},
                           address : {NULL, "", "1 Main"}, state : {NULL, "UT"},
                           zip : {NULL, "84601"}, tags : {<<>>, <<"vip">>},
                           channel : {NULL, "Manual"}]]

ScoreCall ==
  /\ probe.pc = "contact"
  /\ probe' = [pc |-> "scored", contact |-> probe.contact,
               score |-> calculateCompleteness(probe.contact)]
  /\ UNCHANGED <<downstream, contactsCache, cacheTimestamp, now, ticks, bulk, calls, result>>

SpecScore == ScoreInit /\ [][ScoreCall]_vars

(***************************************************************************)
(* The page loops of getAllContacts (patchApi.js) and getAllCustomers      *)
(* (housecallApi.js), one iteration at a time.  Page p of either API       *)
(* carries the one record p.  probe: side, the loop variable page, the     *)
(* records gathered, the page requests issued, and how the call ended.     *)
(***************************************************************************)
PageLimit == 100

\* what the API may answer a page request with: the last page, a page that
\* announces more, or no answer (the request is rejected or times out)
PageAnswers(side, page) ==
  IF side = "contacts"
  THEN {[ok |-> TRUE, data |-> <<page>>, to |-> 100 * page, total_count |-> 100 * page],
        [ok |-> TRUE, data |-> <<page>>, to |-> 100 * page, total_count |-> 100 * page + 1],
        [ok |-> FALSE]}
  ELSE {[ok |-> TRUE, data |-> <<page>>, total_pages |-> page],
        [ok |-> TRUE, data |-> <<page>>, total_pages |-> page + 1],
        [ok |-> FALSE]}

\* hasMore as each loop computes it
HasMore(side, page, answer) ==
  IF side = "contacts" THEN answer.to < answer.total_count
  ELSE page < answer.total_pages

\* mutant: the limit is tested one page late
CapReached_OnePageLate(page) == page > PageLimit + 1

\* Safety limit, tested after page++
CapReached(page) == page > PageLimit

PagesInit ==
  /\ downstream = <<>>
  /\ contactsCache = NoMap
  /\ cacheTimestamp = 0
  /\ now = StartTime
  /\ ticks = 0
  /\ bulk = BulkIdle
  /\ calls = <<>>
  /\ result = NoResult
  /\ probe \in [pc : {"fetching"}, side : {"contacts", "customers"}, page : {1},
                gathered : {<<>>}, fetches : {0}, more : {TRUE}]

\* one iteration of the while loop; a rejected request leaves through the
\* catch block, which rethrows
FetchPage ==
  /\ probe.pc = "fetching"
  /\ \E answer \in PageAnswers(probe.side, probe.page) :
       probe' = IF ~answer.ok
                THEN [probe EXCEPT !.pc = "raised", !.fetches = @ + 1]
                ELSE [probe EXCEPT
                        !.gathered = @ \o answer.data,
                        !.fetches = @ + 1,
                        !.more = HasMore(probe.side, probe.page, answer),
                        !.page = @ + 1,
                        !.pc = IF HasMore(probe.side, probe.page, answer)
                                  /\ ~CapReached(probe.page + 1)
                               THEN "fetching" ELSE "returned"]
  /\ UNCHANGED <<downstream, contactsCache, cacheTimestamp, now, ticks, bulk, calls, result>>

\* every request is answered or times out (axios timeout), so the loop goes on
SpecPages == PagesInit /\ [][FetchPage]_vars /\ WF_vars(FetchPage)

(***************************************************************************)
(* The order of work in a bulk migration: the batch loop of runBulkSync    *)
(* and the record loop of syncBatch, with the writes they wait for.        *)
(* Records are numbered as in the customer list.  bulk: i is the offset of *)
(* the batch, last its last record, k the record syncBatch is at, inflight *)
(* the records whose create or update has been sent and not yet answered,  *)
(* lastWrite the record whose write was sent last.                         *)
(***************************************************************************)
\* mutant: syncCustomer is called without await
Awaited_NotAwaited(inflight) == TRUE

\* const result = await syncCustomer(customer, options): the loop resumes
\* when the call has returned, which it does after its write was answered
Awaited(inflight) == inflight = {}

SequenceInit ==
  /\ downstream = <<>>
  /\ contactsCache = NoMap
  /\ cacheTimestamp = 0
  /\ now = StartTime
  /\ ticks = 0
  /\ bulk \in [pc : {"slice"}, total : {2, BATCH_SIZE + 1}, i : {0}, last : {0},
               k : {0}, inflight : {{}}, lastWrite : {0}]
  /\ calls = <<>>
  /\ result = NoResult
  /\ probe = ProbeOff

\* runBulkSync: the next batch is cut and handed to syncBatch, or the list
\* is through
NextBatch ==
  /\ bulk.pc = "slice"
  /\ bulk' = IF bulk.i < bulk.total
             THEN [bulk EXCEPT !.pc = "record", !.k = bulk.i + 1,
                               !.last = IF bulk.i + BATCH_SIZE < bulk.total
                                        THEN bulk.i + BATCH_SIZE ELSE bulk.total]
             ELSE [bulk EXCEPT !.pc = "complete"]
  /\ UNCHANGED <<downstream, contactsCache, cacheTimestamp, now, ticks, calls, result, probe>>

\* syncBatch calls syncCustomer for record k, which sends a write or ends
\* without one
StartRecord ==
  /\ bulk.pc = "record"
  /\ \E writes \in BOOLEAN :
       bulk' = IF writes
               THEN [bulk EXCEPT !.pc = "called", !.inflight = @ \cup {bulk.k},
                                 !.lastWrite = bulk.k]
               ELSE [bulk EXCEPT !.pc = "called"]
  /\ UNCHANGED <<downstream, contactsCache, cacheTimestamp, now, ticks, calls, result, probe>>

\* the service answers a write, or the request times out
SettleWrite ==
  /\ \E record \in bulk.inflight : bulk' = [bulk EXCEPT !.inflight = @ \ {record}]
  /\ UNCHANGED <<downstream, contactsCache, cacheTimestamp, now, ticks, calls, result, probe>>

\* the loop of syncBatch goes on to the next record, or syncBatch returns
\* and runBulkSync moves to the next batch
NextRecord ==
  /\ bulk.pc = "called"
  /\ Awaited(bulk.inflight)
  /\ bulk' = IF bulk.k < bulk.last
             THEN [bulk EXCEPT !.pc = "record", !.k = @ + 1]
             ELSE [bulk EXCEPT !.pc = "slice", !.i = @ + BATCH_SIZE]
  /\ UNCHANGED <<downstream, contactsCache, cacheTimestamp, now, ticks, calls, result, probe>>

SequenceNext == NextBatch \/ StartRecord \/ SettleWrite \/ NextRecord

SpecSequence == SequenceInit /\ [][SequenceNext]_vars

(***************************************************************************)
(* lib/housecallApi.js getLastServiceDate and the transform that uses it,  *)
(* on enumerated job lists.  A job is [completed_at, status]; the answer   *)
(* of the jobs request is [ok, jobs], ok false for a request that failed.  *)
(***************************************************************************)
\* getCustomerJobs: a failed request gives the empty list
getCustomerJobs(answer) == IF answer.ok THEN answer.jobs ELSE <<>>

\* the values getLastServiceDate may resolve to.  The completed jobs are
\* sorted by new Date(b.completed_at) - new Date(a.completed_at), a stable
\* sort: the first of the latest comes first.  With a completed_at that does
\* not parse the difference is NaN, the comparison is not consistent and the
\* order the sort leaves is implementation-defined: any of them may be first.
getLastServiceDate(answer) ==
  LET completedJobs == SelectSeq(getCustomerJobs(answer),
                                 LAMBDA job : job.status = "completed"
                                              /\ Truthy(job.completed_at))
      n == Len(completedJobs)
      value(k) == DateValue(completedJobs[k].completed_at)
  IN  IF n = 0 THEN {NULL}
      ELSE IF n > 1 /\ \E k \in 1..n : value(k) = NaN
      THEN {completedJobs[k].completed_at : k \in 1..n}
      ELSE {completedJobs[k].completed_at :
              k \in {k \in 1..n : \A j \in 1..n :
                                    /\ value(j) <= value(k)
                                    /\ j < k => value(j) < value(k)}}

JobAnswers ==
  LET done(t) == [completed_at |-> t, status |-> "completed"]
      open(t) == [completed_at |-> t, status |-> "scheduled"]
      lists == { <<>>, <<open(T2)>>, <<done(NULL)>>, <<done(T1)>>, <<done(BadDate)>>,
                 <<done(T1), done(T2)>>, <<done(T2), open(NULL), done(T0)>>,
                 <<done(T0), open(T2), done(T0local)>>,
                 <<done(T1), done(BadDate), done(T2)>> }
  IN  {[jobs |-> <<>>, ok |-> FALSE]} \cup {[jobs |-> l, ok |-> TRUE] : l \in lists}

HistoryInit ==
  /\ downstream = <<>>
  /\ contactsCache = NoMap
  /\ cacheTimestamp = 0
  /\ now = StartTime
  /\ ticks = 0
  /\ bulk = BulkIdle
  /\ calls = <<>>
  /\ result = NoResult
  /\ probe \in [pc : {"input"},
                customer : [id : {NULL, "c1"}, first_name : {"Ann"},
                            mobile_number : {"8015550100"},
                            tags : {<<>>, <<"vip">>, <<"Has-Service-History">>,
                                    <<"LastService:2024-01-01">>}],
                includeLastServiceDate : BOOLEAN,
                isInitialSync : BOOLEAN,
                answer : JobAnswers]

\* transformCustomer(customer, {isInitialSync, includeLastServiceDate})
HistoryCall ==
  /\ probe.pc = "input"
  /\ \E lastServiceDate \in IF probe.includeLastServiceDate /\ Truthy(probe.customer.id)
                            THEN getLastServiceDate(probe.answer) ELSE {NULL} :
       probe' = Merge(probe,
                      [pc |-> "transformed",
                       lastServiceDate |-> lastServiceDate,
                       payload |-> transformCustomer(probe.customer, probe.isInitialSync,
                                                     lastServiceDate)])
  /\ UNCHANGED <<downstream, contactsCache, cacheTimestamp, now, ticks, bulk, calls, result>>

SpecHistory == HistoryInit /\ [][HistoryCall]_vars

(***************************************************************************)
(* Properties of the merge decision (SpecDecide)                           *)
(***************************************************************************)
Decided == probe.pc = "decided"

\* the existing contact carries a non-empty channel other than "API"
Curated(contact) ==
  /\ Truthy(Get(contact, "channel"))
  /\ Get(contact, "channel") # "API"

\* both updated_at values parse and the source's is strictly later
StrictlyLater(source, contact) ==
  /\ Truthy(Get(source, "updated_at")) /\ DateValue(Get(source, "updated_at")) # NaN
  /\ Truthy(Get(contact, "updated_at")) /\ DateValue(Get(contact, "updated_at")) # NaN
  /\ DateValue(Get(source, "updated_at")) > DateValue(Get(contact, "updated_at"))

\* C1: whenever the matched contact carries a non-empty channel other than
\* "API", the decision is skip, whatever the two updated_at values and the
\* two completeness scores are.
C1_ManualEditProtection ==
  (Decided /\ IsContact(probe.existing) /\ Curated(probe.existing))
    => probe.decision.action = "skip"

\* a hand-edited contact is skipped although the source is later and more complete
C1_Witness ==
  /\ Decided /\ IsContact(probe.existing)
  /\ probe.existing.channel = "Manual"
  /\ StrictlyLater(probe.customer, probe.existing)
  /\ calculateCompleteness(probe.customer) > calculateCompleteness(probe.existing)
  /\ probe.decision.action = "skip"

\* C2: for a matched contact that is not curated and a source that is not
\* strictly later, the decision is update exactly when the payload that would
\* be written scores strictly higher than the matched contact, else skip.
C2_PayloadCompleteness ==
  (Decided /\ IsContact(probe.existing) /\ ~Curated(probe.existing)
     /\ ~StrictlyLater(probe.customer, probe.existing))
    => /\ probe.decision.action \in {"update", "skip"}
       /\ probe.decision.action = "update"
            <=> calculateCompleteness(probe.payload)
                  > calculateCompleteness(probe.existing)

\* C3: for a matched contact that is not curated, the decision is update when
\* both updated_at values parse and the source's is strictly later; in every
\* other case it is update exactly when the source scores strictly higher
\* than the contact, and skip otherwise.
C3_RecencyRule ==
  (Decided /\ IsContact(probe.existing) /\ ~Curated(probe.existing))
    => IF StrictlyLater(probe.customer, probe.existing)
       THEN probe.decision.action = "update"
       ELSE /\ probe.decision.action \in {"update", "skip"}
            /\ probe.decision.action = "update"
                 <=> calculateCompleteness(probe.customer)
                       > calculateCompleteness(probe.existing)

\* one second later and not more complete: updated
C3_Witness ==
  /\ Decided /\ IsContact(probe.existing)
  /\ probe.existing.channel = "API"
  /\ probe.customer.updated_at = T1 /\ probe.existing.updated_at = T0
  /\ calculateCompleteness(probe.customer) <= calculateCompleteness(probe.existing)
  /\ probe.decision.action = "update"

\* C4: without a matched contact the decision is create, for every source
\* record.
C4_NoMatchCreates ==
  (Decided /\ ~IsContact(probe.existing))
    => /\ probe.decision.action = "create"
       /\ ~IsContact(probe.decision.contact)

\* created for a source with no timestamp, no name and no mobile number
C4_Witness ==
  /\ Decided /\ ~IsContact(probe.existing)
  /\ probe.customer.updated_at = NULL
  /\ probe.customer.first_name = BLANK
  /\ probe.customer.mobile_number = NULL
  /\ probe.decision.action = "create"

(***************************************************************************)
(* Properties of the running system (Spec)                                 *)
(***************************************************************************)
\* C5: no update call is issued against a contact that, when the call is
\* made, carries a non-empty channel other than "API".
C5_NoUpdateOfCurated ==
  \A k \in 1..Len(calls) :
    calls[k].op = "update" => ~(Truthy(calls[k].channel) /\ calls[k].channel # "API")

(***************************************************************************)
(* Properties of one call of syncCustomer (SpecSyncOne)                    *)
(***************************************************************************)
Returned == probe.pc = "returned"

\* neither a mobile nor a home number
NoPhone(customer) ==
  /\ ~Truthy(Get(customer, "mobile_number"))
  /\ ~Truthy(Get(customer, "home_number"))

\* calls to Patch Retention: listing fetch, create, update
IsDownstreamCall(call) == call.op \in {"list", "create", "update"}
DownstreamCalls == SelectSeq(calls, IsDownstreamCall)
Writes == SelectSeq(calls, IsWrite)

\* the job history resolved to a date that toISOString() rejects
TransformFailed ==
  \E k \in 1..Len(calls) :
    /\ calls[k].op = "jobs"
    /\ Truthy(calls[k].resolved)
    /\ DateValue(calls[k].resolved) = NaN

LookupFailed == \E k \in 1..Len(calls) : calls[k].op = "list" /\ ~calls[k].ok

WriteFailed == \E k \in 1..Len(calls) : IsWrite(calls[k]) /\ calls[k].status # 200

ReportsError ==
  /\ result.action = "error"
  /\ "error" \in DOMAIN result
  /\ Truthy(result.error)

SkippedNoPhone ==
  /\ result.action = "skipped"
  /\ "reason" \in DOMAIN result
  /\ result.reason = "no_phone"

\* C6: a record with neither a mobile nor a home number ends skipped with
\* reason no_phone and no call to Patch Retention is issued.
C6_NoPhoneSkipped ==
  (Returned /\ NoPhone(probe.customer))
    => SkippedNoPhone /\ Len(DownstreamCalls) = 0

\* C6 (as the code has it): for a record with neither a mobile nor a home
\* number no call to Patch Retention is issued, with or without a phone lookup
\* supplied; the result is skipped with reason no_phone unless the transform
\* failed, and then it is error with a message.
C6_NoPhoneNoCalls ==
  (Returned /\ NoPhone(probe.customer))
    => /\ Len(DownstreamCalls) = 0
       /\ IF TransformFailed THEN ReportsError ELSE SkippedNoPhone

\* no phone, a lookup supplied, the job history read: skipped and nothing issued
C6_Witness ==
  /\ Returned /\ NoPhone(probe.customer)
  /\ IsMap(probe.options.phoneLookup)
  /\ probe.options.includeLastServiceDate
  /\ Len(calls) = 1 /\ calls[1].op = "jobs"
  /\ SkippedNoPhone

\* C7: for a record with a phone at most one write is issued and it matches
\* the action reported: one create for created, one update addressed to the
\* _id of the contact matched by phone for updated, none for skipped.
C7_OneMatchingWrite ==
  (Returned /\ ~NoPhone(probe.customer))
    => /\ Len(Writes) <= 1
       /\ result.action = "created" => Len(Writes) = 1 /\ Writes[1].op = "create"
       /\ result.action = "updated" =>
            /\ Len(Writes) = 1 /\ Writes[1].op = "update"
            /\ Writes[1].id \in 1..Len(downstream)
            /\ downstream[Writes[1].id]._id = Writes[1].id
            /\ normalizePhone(Get(downstream[Writes[1].id], "phone"))
                 = normalizePhone(OrElse(Get(probe.customer, "mobile_number"),
                                         Get(probe.customer, "home_number")))
            /\ result.contact._id = Writes[1].id
       /\ result.action = "skipped" => Len(Writes) = 0

\* updated through a supplied lookup that holds two contacts with the number
C7_Witness ==
  /\ Returned /\ ~NoPhone(probe.customer)
  /\ IsMap(probe.options.phoneLookup)
  /\ Len(downstream) = 2
  /\ result.action = "updated"
  /\ Len(Writes) = 1 /\ Writes[1].op = "update" /\ Writes[1].id = 2

\* C8: every failure of the transform, the lookup or the write ends in a
\* result with action error and a message.
C8_EveryFailureIsError ==
  (Returned /\ (TransformFailed \/ LookupFailed \/ WriteFailed)) => ReportsError

\* C8 (as the code has it): syncCustomer always returns a result, one of
\* created, updated, skipped, error; a failure of the transform or of the
\* write ends in error with a message; a failure of the listing fetch is not
\* reported: the record is treated as unmatched, a create is issued and the
\* result is created when the create succeeds.
C8_FailureBoundary ==
  Returned =>
    /\ result.action \in {"created", "updated", "skipped", "error"}
    /\ (TransformFailed \/ WriteFailed) => ReportsError
    /\ LookupFailed => /\ Len(Writes) = 1 /\ Writes[1].op = "create"
                       /\ ~WriteFailed => result.action = "created"

\* the listing fetch failed, the create went out and was answered 500: error
C8_Witness ==
  /\ Returned /\ LookupFailed
  /\ Len(Writes) = 1 /\ Writes[1].op = "create" /\ Writes[1].status = 500
  /\ ReportsError

(***************************************************************************)
(* Properties of the bulk migration (SpecBulk)                             *)
(***************************************************************************)
InBatch == bulk.pc \in {"batch", "done"}

\* a write of the record just synced was answered 409 or 400
WriteRejected ==
  \E k \in 1..Len(calls) : IsWrite(calls[k]) /\ calls[k].status \in {400, 409}

CountOf(details, action) ==
  Cardinality({k \in 1..Len(details) : details[k].action = action})

\* C9: a record whose create or update is answered 409 or 400 ends skipped,
\* not error, and is counted as skipped by the batch.
C9_RejectionIsSkipped ==
  (InBatch /\ WriteRejected)
    => /\ result.action = "skipped"
       /\ bulk.results.details[Len(bulk.results.details)].action = "skipped"
       /\ bulk.results.skipped = CountOf(bulk.results.details, "skipped")
       /\ bulk.results.errors = CountOf(bulk.results.details, "error")

\* C10: the batch keeps one result per record processed, in input order,
\* each counter is the number of results with that action and the four add
\* up to the number of results; when the batch returns, every input record
\* has its result, whatever the earlier records ended in.
C10_BatchAccounting ==
  InBatch =>
    LET details == bulk.results.details
    IN  /\ Len(details) = bulk.i - 1
        /\ Len(details) <= Len(bulk.customers)
        /\ \A k \in 1..Len(details) : details[k].customer = bulk.customers[k]
        /\ bulk.results.created = CountOf(details, "created")
        /\ bulk.results.updated = CountOf(details, "updated")
        /\ bulk.results.skipped = CountOf(details, "skipped")
        /\ bulk.results.errors = CountOf(details, "error")
        /\ bulk.results.created + bulk.results.updated + bulk.results.skipped
             + bulk.results.errors = Len(details)
        /\ bulk.pc = "done" => Len(details) = Len(bulk.customers)

\* the batch returned: the first record ended in error, the later ones were
\* processed all the same
C10_Witness ==
  /\ bulk.pc = "done"
  /\ Len(bulk.customers) = 3
  /\ Len(bulk.results.details) = 3
  /\ bulk.results.details[1].action = "error"
  /\ bulk.results.details[2].action = "skipped"
  /\ bulk.results.details[3].action = "created"
  /\ bulk.results.errors = 1 /\ bulk.results.skipped = 1 /\ bulk.results.created = 1

\* the second run of the migration, after a first run in which no record
\* ended in error
SecondRun ==
  /\ InBatch
  /\ bulk.run = 2
  /\ bulk.first.errors = 0

\* C11: in a second run on the unchanged list, after a first run whose writes
\* were all applied and with the index rebuilt, nothing is created, nothing
\* is updated and every record ends skipped.
C11_SecondRunSkipsAll ==
  SecondRun =>
    /\ bulk.results.created = 0
    /\ bulk.results.updated = 0
    /\ \A k \in 1..Len(bulk.results.details) :
         bulk.results.details[k].action = "skipped"

(***************************************************************************)
(* Properties of two concurrent webhook deliveries (SpecRace)              *)
(***************************************************************************)
Racing == probe.pc = "race"

\* the contacts of a sequence whose phone normalises to the key of the phone
SamePhone(contacts, phone) ==
  {i \in 1..Len(contacts) :
     /\ normalizePhone(Get(contacts[i], "phone")) # ""
     /\ normalizePhone(Get(contacts[i], "phone")) = normalizePhone(phone)}

\* invocation k obtained no match
NoMatch(k) ==
  /\ probe.inv[k].pc \in {"resolved", "done"}
  /\ probe.inv[k].plan.stage = "decided"
  /\ probe.inv[k].plan.decision.action = "create"

Created(k) ==
  /\ probe.inv[k].pc = "done"
  /\ probe.inv[k].result.action = "created"

\* C12: an invocation whose listing fetch succeeded while Patch Retention
\* held a contact with its phone obtains a match; but two invocations that
\* both resolved no match both create, and Patch Retention is left with two
\* different contacts whose phones normalise to the same value.
C12_RaceDuplicates ==
  Racing =>
    /\ \A k \in 1..2 :
         (/\ probe.inv[k].pc \in {"resolved", "done"}
          /\ \E c \in 1..Len(probe.inv[k].plan.calls) :
               probe.inv[k].plan.calls[c].op = "list" /\ probe.inv[k].plan.calls[c].ok
          /\ SamePhone(probe.inv[k].held, Get(probe.inv[k].plan.patchData, "phone")) # {})
         => ~NoMatch(k)
    /\ (NoMatch(1) /\ NoMatch(2) /\ Created(1) /\ Created(2))
         => LET a == probe.inv[1].result.contact._id
                b == probe.inv[2].result.contact._id
            IN  /\ a # b
                /\ {a, b} \subseteq SamePhone(downstream,
                                              Get(probe.inv[1].plan.patchData, "phone"))
                /\ {a, b} \subseteq SamePhone(downstream,
                                              Get(probe.inv[2].plan.patchData, "phone"))

\* both deliveries resolved before either create went out: two contacts for
\* one number, from an empty account
C12_Witness ==
  /\ Racing
  /\ probe.inv[1].customer = cAnn /\ probe.inv[2].customer = cBo
  /\ Created(1) /\ Created(2)
  /\ probe.inv[1].held = <<>> /\ probe.inv[2].held = <<>>
  /\ Len(downstream) = 2
  /\ Cardinality(SamePhone(downstream, "8015550100")) = 2

(***************************************************************************)
(* Properties of the contact index (SpecIndex)                             *)
(***************************************************************************)
IndexCall(op) == probe.pc = "index" /\ probe.op = op

HadCache == IsMap(probe.cacheBefore)
CacheAge == probe.time - probe.timestampBefore

CacheUntouched ==
  /\ probe.cacheAfter = probe.cacheBefore
  /\ probe.timestampAfter = probe.timestampBefore

FetchIssued == Len(probe.calls) = 1 /\ probe.calls[1].op = "list"

\* C13: buildPhoneLookup without forceRefresh, while an index younger than
\* the TTL is cached, returns that index, fetches nothing and leaves the
\* cache as it is.
C13_CachedIndexReused ==
  (IndexCall("build") /\ ~probe.args.forceRefresh /\ HadCache /\ CacheAge < CACHE_TTL)
    => /\ probe.returned = probe.cacheBefore
       /\ probe.calls = <<>>
       /\ CacheUntouched

\* a cached index half a TTL old is returned although Patch Retention has
\* changed since
C13_Witness ==
  /\ IndexCall("build") /\ ~probe.args.forceRefresh /\ HadCache
  /\ CacheAge = CACHE_TTL \div 2
  /\ probe.returned = probe.cacheBefore
  /\ probe.calls = <<>>
  /\ IndexContacts(probe.held) # probe.returned

\* C14: buildPhoneLookup fetches and replaces the cache when no index is
\* cached, when the cached index is older than the TTL, or when forceRefresh
\* is true, and in no other case.
C14_RebuildOnlyWhenOlder ==
  IndexCall("build") =>
    LET claimed == ~HadCache \/ CacheAge > CACHE_TTL \/ probe.args.forceRefresh
    IN  /\ claimed <=> FetchIssued
        /\ ~CacheUntouched => claimed

\* C14 (as the code has it): buildPhoneLookup issues the listing fetch exactly
\* when no index is cached, when the cached index is at least as old as the
\* TTL, or when forceRefresh is true; when the fetch succeeds the cache
\* becomes the index of the contacts fetched, stamped with the current time,
\* and is what is returned; when it fails, or no fetch is issued, the cache is
\* left as it is.
C14_RebuildCases ==
  IndexCall("build") =>
    LET mustRebuild == ~HadCache \/ CacheAge >= CACHE_TTL \/ probe.args.forceRefresh
    IN  /\ mustRebuild <=> FetchIssued
        /\ Fetched(probe.calls, TRUE) =>
             /\ probe.cacheAfter = IndexContacts(probe.held)
             /\ probe.timestampAfter = probe.time
             /\ probe.returned = probe.cacheAfter
        /\ Fetched(probe.calls, FALSE) => IsFailure(probe.returned) /\ CacheUntouched
        /\ ~mustRebuild => CacheUntouched

\* an index exactly as old as the TTL is rebuilt
C14_Witness ==
  /\ IndexCall("build") /\ ~probe.args.forceRefresh /\ HadCache
  /\ CacheAge = CACHE_TTL
  /\ Fetched(probe.calls, TRUE)
  /\ probe.cacheAfter # probe.cacheBefore
  /\ probe.timestampAfter = probe.time

\* the key a contact is indexed under
KeyOf(contact) == normalizePhone(Get(contact, "phone"))

\* C15: in an index returned by buildPhoneLookup every key is a non-empty
\* normalised phone, occurs once, and maps to a fetched contact whose phone
\* normalises to it, the last such contact in fetch order; every fetched
\* contact with a phone that normalises to a non-empty key has its key in the
\* index.
C15_IndexInvariant ==
  (IndexCall("build") /\ ~IsFailure(probe.returned)) =>
    LET e == probe.returned.entries
        f == probe.fetched
    IN  /\ \A i \in 1..Len(e) : e[i].key # "" /\ e[i].key = KeyOf(e[i].value)
        /\ \A i, j \in 1..Len(e) : e[i].key = e[j].key => i = j
        /\ \A i \in 1..Len(e) :
             \E n \in 1..Len(f) :
               /\ f[n] = e[i].value
               /\ \A m \in (n + 1)..Len(f) : KeyOf(f[m]) # e[i].key
        /\ \A n \in 1..Len(f) :
             KeyOf(f[n]) # "" => \E i \in 1..Len(e) : e[i].key = KeyOf(f[n])

\* two fetched contacts share a number: the index holds the second one only
C15_Witness ==
  /\ IndexCall("build") /\ ~IsFailure(probe.returned)
  /\ Fetched(probe.calls, TRUE)
  /\ Len(probe.fetched) = 2
  /\ KeyOf(probe.fetched[1]) = "8015550100"
  /\ KeyOf(probe.fetched[2]) = "8015550100"
  /\ Len(probe.returned.entries) = 1
  /\ probe.returned.entries[1].value = probe.fetched[2]

\* C16: findContactByPhone and findContactByEmail never raise, and return no
\* match when the build they trigger fails; buildPhoneLookup called directly
\* raises the failure of the fetch.
C16_FailOpen ==
  /\ (IndexCall("findPhone") \/ IndexCall("findEmail")) =>
       /\ ~IsFailure(probe.returned)
       /\ Fetched(probe.calls, FALSE) => probe.returned = NoContact /\ CacheUntouched
  /\ (IndexCall("build") /\ Fetched(probe.calls, FALSE)) => IsFailure(probe.returned)

\* the fetch failed while Patch Retention held a contact with the number
\* looked up: no match
C16_Witness ==
  /\ IndexCall("findPhone")
  /\ Fetched(probe.calls, FALSE)
  /\ probe.returned = NoContact
  /\ \E n \in 1..Len(probe.held) :
       KeyOf(probe.held[n]) # "" /\ KeyOf(probe.held[n]) = normalizePhone(probe.args.phone)

\* the index a lookup went through: the one passed, else the cached one
\* (reused or just rebuilt); none when the build failed
UsedIndex ==
  IF IsMap(probe.passed) THEN probe.passed
  ELSE IF Fetched(probe.calls, FALSE) THEN NoMap
  ELSE probe.cacheAfter

\* C17: findContactByPhone returns the contact the index holds whose phone
\* normalises to the same non-empty value as the phone looked up, and no
\* match in every other case.
C17_PhoneMatching ==
  IndexCall("findPhone") =>
    LET key == normalizePhone(probe.args.phone)
        hits == IF IsMap(UsedIndex)
                THEN {i \in 1..Len(UsedIndex.entries) :
                        KeyOf(UsedIndex.entries[i].value) = key}
                ELSE {}
    IN  IF key # "" /\ hits # {}
        THEN \E i \in hits : probe.returned = UsedIndex.entries[i].value
        ELSE probe.returned = NoContact

\* a number written with country code and punctuation finds the contact that
\* has it written without the country code
C17_Witness ==
  /\ IndexCall("findPhone")
  /\ probe.args.phone = "+1 (801) 555-0100"
  /\ IsContact(probe.returned)
  /\ Get(probe.returned, "phone") = "(801) 555-0100"

\* C20: findContactByEmail returns a fetched contact whose email equals the
\* argument ignoring case whenever the listing fetched for the index holds
\* one, and no match only when it holds none.
C20_EmailFoundAmongFetched ==
  (IndexCall("findEmail") /\ Truthy(probe.args.email) /\ IsMap(UsedIndex)) =>
    LET having == {n \in 1..Len(probe.fetched) :
                     /\ Truthy(Get(probe.fetched[n], "email"))
                     /\ toLowerCase(probe.fetched[n].email)
                          = toLowerCase(probe.args.email)}
    IN  IF having # {}
        THEN \E n \in having : probe.returned = probe.fetched[n]
        ELSE probe.returned = NoContact

(***************************************************************************)
(* Properties of normalizePhone (SpecNormalize)                            *)
(***************************************************************************)
\* the digits of a text, in order, taken from its end
RECURSIVE DigitsOnly(_)
DigitsOnly(text) ==
  IF Len(text) = 0 THEN ""
  ELSE LET last == SubSeq(text, Len(text), Len(text))
       IN  DigitsOnly(SubSeq(text, 1, Len(text) - 1))
             \o (IF last \in DigitChars THEN last ELSE "")

\* C18: normalizePhone gives the digits of its input, without the first one
\* if and only if there are exactly 11 of them and the first is 1; the empty
\* string for an empty or absent input.
C18_Normalization ==
  probe.pc = "normalized" =>
    LET digits == IF probe.phone = NULL THEN "" ELSE DigitsOnly(probe.phone)
    IN  /\ probe.normalized = IF Len(digits) = 11 /\ SubSeq(digits, 1, 1) = "1"
                              THEN SubSeq(digits, 2, 11) ELSE digits
        /\ probe.phone = "+1 (801) 555-0100" => probe.normalized = "8015550100"
        /\ probe.phone = "5550100" => probe.normalized = "5550100"
        /\ probe.phone \in {NULL, ""} => probe.normalized = ""

\* twelve digits that start with 1 are kept whole
C18_Witness ==
  /\ probe.pc = "normalized"
  /\ probe.phone = "1-(801) 555-01009"
  /\ probe.normalized = "180155501009"

\* C19: every create or update issued by syncCustomer carries a payload whose
\* phone normalises to a non-empty key.
C19_WritesCarryUsableKey ==
  Returned =>
    \A k \in 1..Len(calls) :
      IsWrite(calls[k]) => normalizePhone(Get(calls[k].payload, "phone")) # ""

(***************************************************************************)
(* Properties of the transform (SpecTransform)                             *)
(***************************************************************************)
Transformed == probe.pc = "transformed"

\* the payloads returned: by Step 1, by transformCustomerSync, and by
\* transformCustomer without service history
Payloads == {p \in {probe.payload, probe.sync, probe.optedOut} : ~IsFailure(p)}

\* C21: no key of a returned payload holds null, undefined or the empty
\* string; without an email there is no email key, without an address no
\* city and no address key.
C21_NoEmptyField ==
  Transformed =>
    \A p \in Payloads :
      /\ \A k \in DOMAIN p : p[k] # NULL /\ p[k] # ""
      /\ ~Truthy(probe.customer.email) => "email" \notin DOMAIN p
      /\ probe.customer.addresses = <<>> =>
           "city" \notin DOMAIN p /\ "address" \notin DOMAIN p

C21_Witness ==
  /\ Transformed
  /\ probe.customer.email = ""
  /\ probe.customer.addresses = <<>>
  /\ probe.customer.first_name = ""
  /\ ~IsFailure(probe.payload)
  /\ DOMAIN probe.payload = {"phone", "tags"}

TagSet(tags) == {tags[i] : i \in 1..Len(tags)}

\* C22: the tags of a returned payload hold no tag twice, keep the order of
\* first occurrence, hold the source marker and exactly one sync-mode
\* marker, and hold every tag of the source record.
C22_TagsAreASet ==
  Transformed =>
    \A p \in Payloads :
      /\ \A i, j \in 1..Len(p.tags) : p.tags[i] = p.tags[j] => i = j
      /\ "Source:housecallpro" \in TagSet(p.tags)
      /\ Cardinality(TagSet(p.tags) \cap {"Sync:initial", "Sync:realtime"}) = 1
      /\ TagSet(probe.customer.tags) \subseteq TagSet(p.tags)
      /\ \A i, j \in 1..Len(probe.customer.tags) :
           (i < j /\ probe.customer.tags[i] # probe.customer.tags[j]) =>
             \E a, b \in 1..Len(p.tags) :
               a < b /\ p.tags[a] = probe.customer.tags[i]
                     /\ p.tags[b] = probe.customer.tags[j]

\* the address the four values are to come from
ChosenAddress(addresses) ==
  LET services == SelectSeq(addresses, LAMBDA a : Get(a, "type") = "service")
  IN  IF services # <<>> THEN Head(services) ELSE Head(addresses)

HasPrefix(text, prefix) ==
  Len(text) >= Len(prefix) /\ SubSeq(text, 1, Len(prefix)) = prefix

\* the State: and ZIP: tags of a payload that the source record did not carry
AddressTags(p) ==
  {t \in TagSet(p.tags) : HasPrefix(t, "State:") \/ HasPrefix(t, "ZIP:")}
    \ TagSet(probe.customer.tags)

\* C23: city, street, state and zip all come from the first address of type
\* "service", or from the first address when none has that type; without
\* addresses all four are absent.
C23_AddressSelection ==
  Transformed =>
    \A p \in Payloads :
      IF probe.customer.addresses = <<>>
      THEN /\ "city" \notin DOMAIN p
           /\ "address" \notin DOMAIN p
           /\ AddressTags(p) = {}
      ELSE LET chosen == ChosenAddress(probe.customer.addresses)
               lines == Trim(OrElse(Get(chosen, "street"), "")
                             \o (IF Truthy(Get(chosen, "street_line_2"))
                                 THEN " " \o chosen.street_line_2 ELSE ""))
           IN  /\ Get(p, "city") = Get(chosen, "city")
               /\ Get(p, "address") = OrElse(lines, NULL)
               /\ AddressTags(p) =
                    ( (IF Truthy(Get(chosen, "state"))
                       THEN {"State:" \o chosen.state} ELSE {})
                      \cup (IF Truthy(Get(chosen, "zip"))
                            THEN {"ZIP:" \o chosen.zip} ELSE {}) )
                    \ TagSet(probe.customer.tags)

\* a lone billing address gives its city, state and zip
C23_Witness ==
  /\ Transformed
  /\ Len(probe.customer.addresses) = 1
  /\ probe.customer.addresses[1].type = "billing"
  /\ ~IsFailure(probe.payload)
  /\ Get(probe.payload, "city") = "Orem"
  /\ {"State:UT", "ZIP:84057"} \subseteq TagSet(probe.payload.tags)

\* C24: transformCustomerSync returns what transformCustomer returns without
\* service history, and the job history is asked only when
\* includeLastServiceDate is true.
C24_SyncEquivalence ==
  Transformed =>
    /\ probe.sync = probe.optedOut
    /\ probe.jobs # <<>> => probe.options.includeLastServiceDate
    /\ ~probe.options.includeLastServiceDate =>
         probe.jobs = <<>> /\ probe.payload = probe.optedOut

\* a bulk-migration transform of a record that has an id and a ZIP
C24_Witness ==
  /\ Transformed
  /\ probe.options.isInitialSync
  /\ ~probe.options.includeLastServiceDate
  /\ probe.customer.id = "c1"
  /\ probe.jobs = <<>>
  /\ probe.payload = probe.optedOut
  /\ "ZIP:84601" \in TagSet(probe.payload.tags)

(***************************************************************************)
(* Properties of the webhook handlers (SpecHandler)                        *)
(***************************************************************************)
Handled == probe.pc = "handled"

\* the customer a delivery carries, if any
CarriedCustomer(body) ==
  IF "data" \notin DOMAIN body THEN NoContact
  ELSE IF Get(body, "event") # "job.completed" THEN body.data
  ELSE IF "customer" \in DOMAIN body.data THEN body.data.customer
  ELSE NoContact

\* a delivery of an unrecognized event type, or without body, event, data,
\* customer or customer first name
Malformed(body) ==
  \/ "none" \in DOMAIN body
  \/ Get(body, "event") \notin {"customer.created", "customer.updated", "job.completed"}
  \/ ~IsContact(CarriedCustomer(body))
  \/ ~Truthy(Get(CarriedCustomer(body), "first_name"))

\* C25: every POST delivery that is unrecognized or malformed is answered
\* with HTTP 200 and a success indicator, and no sync is performed.
C25_MalformedIsHandled ==
  (Handled /\ probe.request.method = "POST" /\ Malformed(probe.request.body)) =>
    /\ result.status = 200
    /\ result.success
    /\ calls = <<>>

(***************************************************************************)
(* Properties of the bulk migration, continued (SpecBulk)                  *)
(***************************************************************************)
\* syncBatch has just synced one more record
BatchStepped == bulk.pc = "batch" /\ bulk'.pc = "batch" /\ bulk'.i = bulk.i + 1

\* what the index handed to syncBatch holds for a customer's phone
IndexedMatch(customer) ==
  MapGet(bulk.phoneLookup,
         normalizePhone(Get(transformCustomerSync(customer, TRUE), "phone")))

\* C26: every syncCustomer of a batch resolves its match against the one
\* index syncBatch was given, and no contact listing is fetched during the
\* batch, however much time passes.
C26_SharedIndex ==
  [][BatchStepped =>
       /\ bulk'.phoneLookup = bulk.phoneLookup
       /\ \A k \in 1..Len(calls') : calls'[k].op # "list"
       /\ LET match == IndexedMatch(bulk.customers[bulk.i])
          IN  CASE result'.action = "created" -> ~IsContact(match)
                [] result'.action = "updated" ->
                     IsContact(match) /\ result'.contact._id = match._id
                [] result'.action = "skipped" /\ "contact" \in DOMAIN result' ->
                     result'.contact = match
                [] OTHER -> TRUE]_vars

\* a record was matched by the shared index after the cache TTL had passed
C26_Witness ==
  /\ bulk.pc = "batch"
  /\ bulk.i > 1
  /\ now >= bulk.timestamp + CACHE_TTL
  /\ result.action \in {"updated", "skipped"}
  /\ "contact" \in DOMAIN result
  /\ \A k \in 1..Len(calls) : calls[k].op # "list"

(***************************************************************************)
(* Properties of calculateCompleteness (SpecScore); scores in half points  *)
(***************************************************************************)
\* a field holds text that is not empty once trimmed
FilledIn(contact, field) ==
  LET text == contact[field]
  IN  text # NULL /\ \E i \in 1..Len(text) : SubSeq(text, i, i) \notin WhiteSpace

\* a field holds a value
Present(contact, field) == contact[field] \notin {NULL, ""}

\* C27: the score is 1 for each of first_name, last_name, phone, email and
\* city that is not blank, plus 0.5 for each of street-or-address, state, zip
\* and a non-empty tags; 0 for an empty contact, at most 7, and the same
\* whatever the other fields hold.
C27_CompletenessScore ==
  probe.pc = "scored" =>
    LET c == probe.contact
        whole == {f \in {"first_name", "last_name", "phone", "email", "city"} :
                    FilledIn(c, f)}
        halves == {h \in {"where", "state", "zip", "tags"} :
                     CASE h = "where" -> Present(c, "street") \/ Present(c, "address")
                       [] h = "tags"  -> c.tags # <<>>
                       [] OTHER       -> Present(c, h)}
    IN  /\ probe.score = 2 * Cardinality(whole) + Cardinality(halves)
        /\ probe.score <= 14
        /\ (whole = {} /\ halves = {}) => probe.score = 0
        /\ \A other \in {NULL, "API", "Manual"} :
             calculateCompleteness([c EXCEPT !.channel = other]) = probe.score

\* street and address both present count once: the full score is 7
C27_Witness ==
  /\ probe.pc = "scored"
  /\ Present(probe.contact, "street")
  /\ Present(probe.contact, "address")
  /\ probe.contact.channel = "Manual"
  /\ probe.score = 14

(***************************************************************************)
(* Properties of the page loops (SpecPages)                                *)
(***************************************************************************)
PagesUpTo(n) == [i \in 1..n |-> i]

\* C30 as stated: either listing ends, after at most 100 page requests, by
\* returning the records of the pages fetched, and never by raising.
C30_AlwaysReturns ==
  probe.pc # "fetching" =>
    /\ probe.pc = "returned"
    /\ probe.fetches <= 100
    /\ probe.gathered = PagesUpTo(probe.fetches)

\* C30, amended: either listing ends after at most 100 page requests; it
\* returns the records of the pages fetched, also when the limit cuts the
\* listing short, unless a page request fails, and then it raises.
C30_BoundedPagination ==
  /\ [](/\ probe.fetches <= 100
        /\ probe.pc = "returned" =>
             /\ probe.gathered = PagesUpTo(probe.fetches)
             /\ probe.more => probe.fetches = 100
        /\ probe.pc = "raised" => Len(probe.gathered) = probe.fetches - 1)
  /\ <>(probe.pc \in {"returned", "raised"})

\* the limit ended a listing of which every page announced more
C30_Witness ==
  /\ probe.pc = "returned"
  /\ probe.side = "contacts"
  /\ probe.more
  /\ probe.fetches = 100
  /\ Len(probe.gathered) = 100

\* C29: when fetching the customers or the forced index build fails,
\* runBulkSync ends in failure without a create or update having been
\* issued; a batch only ever runs with an index built from a listing that
\* succeeded.
C29_SetupFailureAborts ==
  /\ bulk.pc = "failed" =>
       /\ \A k \in 1..Len(calls) : ~IsWrite(calls[k])
       /\ result = NoResult
       /\ \/ \A k \in 1..Len(calls) : calls[k].op # "list"
          \/ \E k \in 1..Len(calls) : calls[k].op = "list" /\ ~calls[k].ok
  /\ bulk.pc = "batch" =>
       /\ IsMap(bulk.phoneLookup)
       /\ ~IsFailure(bulk.phoneLookup)
       /\ bulk.i = 1 => \E k \in 1..Len(calls) : calls[k].op = "list" /\ calls[k].ok

\* the customers were fetched, the index build failed
C29_Witness ==
  /\ bulk.pc = "failed"
  /\ Len(calls) = 2
  /\ calls[1].op = "customers"
  /\ calls[2].op = "list"
  /\ ~calls[2].ok

(***************************************************************************)
(* Properties of the order of work (SpecSequence)                          *)
(***************************************************************************)
\* C28: at most one write is in flight at any moment, the sync of a record
\* starts only when no write is in flight, a batch starts only when the one
\* before is through, and writes are sent in the order of the customer list.
C28_StrictlySequential ==
  [][/\ Cardinality(bulk'.inflight) <= 1
     /\ bulk'.k # bulk.k => bulk.inflight = {}
     /\ bulk'.i # bulk.i => bulk.inflight = {} /\ bulk.k = bulk.last
     /\ bulk'.lastWrite # bulk.lastWrite =>
          /\ bulk'.lastWrite > bulk.lastWrite
          /\ bulk'.lastWrite = bulk.k]_vars

\* the first write of the second batch is in flight, after the last record
\* of the first batch had written
C28_Witness ==
  /\ bulk.pc = "called"
  /\ bulk.i = BATCH_SIZE
  /\ bulk.inflight = {BATCH_SIZE + 1}
  /\ bulk.lastWrite = BATCH_SIZE + 1

(***************************************************************************)
(* Properties of the service-history tags (SpecHistory)                    *)
(***************************************************************************)
\* transformCustomer has returned a payload
HistoryReturned == probe.pc = "transformed" /\ ~IsFailure(probe.payload)

\* the completed_at of the jobs of the answer that are completed
CompletedAt ==
  IF ~probe.answer.ok THEN {}
  ELSE {probe.answer.jobs[k].completed_at :
          k \in {k \in 1..Len(probe.answer.jobs) :
                   /\ probe.answer.jobs[k].status = "completed"
                   /\ probe.answer.jobs[k].completed_at \notin {NULL, ""}}}

HistoryRequested == probe.includeLastServiceDate /\ probe.customer.id # NULL

DateTags(tags) == {t \in TagSet(tags) : HasPrefix(t, "LastService:")}

\* C31 as stated: the marker is there exactly when a timestamp was resolved,
\* and exactly then one LastService tag, for that timestamp; the timestamp
\* resolved is the latest completed_at of the completed jobs, none when the
\* jobs request failed.
C31_MarkerIffResolved ==
  HistoryReturned =>
    LET tags == probe.payload.tags
        resolved == probe.lastServiceDate
    IN  /\ "Has-Service-History" \in TagSet(tags) <=> resolved # NULL
        /\ IF resolved # NULL
           THEN /\ DateTags(tags) = {"LastService:" \o IsoDay(resolved)}
                /\ Cardinality({i \in 1..Len(tags) : HasPrefix(tags[i], "LastService:")}) = 1
           ELSE DateTags(tags) = {}
        /\ resolved # NULL <=> (HistoryRequested /\ CompletedAt # {})
        /\ resolved # NULL =>
             /\ resolved \in CompletedAt
             /\ \A t \in CompletedAt : ~DateGreater(DateValue(t), DateValue(resolved))

(***************************************************************************)
(* Deduplication within one batch (SpecBulk)                               *)
(***************************************************************************)
\* the key the k-th record of the batch is looked up by
BatchKey(k) ==
  normalizePhone(Get(transformCustomerSync(bulk.customers[k], TRUE), "phone"))

\* C32: in one syncBatch run on one shared index, no two records whose phones
\* normalize to the same value are both created: the later one is matched to
\* the contact created for the earlier one.
C32_NoTwoCreatesPerPhone ==
  InBatch =>
    \A i, j \in 1..Len(bulk.results.details) :
      (/\ i < j
       /\ bulk.results.details[i].action = "created"
       /\ BatchKey(i) # ""
       /\ BatchKey(i) = BatchKey(j))
      => /\ bulk.results.details[j].action # "created"
         /\ bulk.results.details[j].action # "error" =>
              /\ "contact" \in DOMAIN bulk.results.details[j]
              /\ bulk.results.details[j].contact._id
                   = bulk.results.details[i].contact._id

(***************************************************************************)
(* The module state of the deduplication cache (SpecIndex)                 *)
(***************************************************************************)
\* the call in progress fetched the listing and the fetch failed
BuildFailed == probe.op # "none" /\ Fetched(probe.calls, FALSE)

\* C33: the cached index and its timestamp are both absent or both present;
\* a cached index is the whole index of the contacts one listing returned;
\* a build that fails leaves the cached index and the timestamp as they were.
C33_CacheState ==
  /\ \/ contactsCache = NoMap /\ cacheTimestamp = 0
     \/ IsMap(contactsCache) /\ ~IsFailure(contactsCache) /\ cacheTimestamp # 0
  /\ IsMap(contactsCache) => contactsCache = IndexContacts(probe.fetched)
  /\ BuildFailed =>
       /\ contactsCache = probe.cacheBefore
       /\ cacheTimestamp = probe.timestampBefore

\* a forced build failed while a non-empty index was cached
C33_Witness ==
  /\ BuildFailed
  /\ probe.op = "build"
  /\ IsMap(probe.cacheBefore)
  /\ probe.cacheBefore.entries # <<>>
  /\ contactsCache = probe.cacheBefore
  /\ cacheTimestamp = probe.timestampBefore
  /\ IsFailure(probe.returned)

(***************************************************************************)
(* What the webhook handler reports and routes (SpecHandler)               *)
(***************************************************************************)
\* the handler that calls syncCustomer of lib/merge.js has answered
HandledByOrchestrator == Handled /\ probe.version = "esm"

\* the handler went on to syncCustomer
Synced == "action" \in DOMAIN result

\* C34: a sync that ends with action error is answered 200, success true,
\* with the message of a skipped sync; 500 is answered only for an exception
\* raised in the handler itself, before any sync.
C34_ErrorIsReportedAsSuccess ==
  HandledByOrchestrator =>
    /\ (Synced /\ result.action = "error") =>
         /\ result.status = 200
         /\ result.success
         /\ result.message = "Customer sync skipped (no changes needed)"
    /\ Synced => result.status = 200
    /\ result.status = 500 =>
         /\ ~Synced
         /\ calls = <<>>
         /\ Route(probe.request) = result

\* a write answered 500 ended the sync in error and the webhook said 200
C34_Witness ==
  /\ HandledByOrchestrator
  /\ Synced
  /\ result.action = "error"
  /\ result.status = 200
  /\ \E k \in 1..Len(calls) : IsWrite(calls[k]) /\ calls[k].status = 500

SyncEvents == {"customer.created", "customer.updated", "job.completed"}

\* C35: either handler answers a request that is not a POST with 405 and
\* success false, syncs nothing and calls no service; only the events
\* customer.created, customer.updated and job.completed lead to a sync or to
\* any call; the jobs of the customer are requested only for job.completed.
C35_MethodAndEventRouting ==
  [][LET req == probe'.request
         event == Get(req.body, "event")
         jobsRequested == \E k \in 1..Len(calls') : calls'[k].op = "jobs"
     IN  /\ req.method # "POST" =>
              /\ result'.status = 405
              /\ ~result'.success
              /\ "action" \notin DOMAIN result'
              /\ calls' = <<>>
              /\ downstream' = downstream
              /\ contactsCache' = contactsCache
              /\ cacheTimestamp' = cacheTimestamp
         /\ ("action" \in DOMAIN result' \/ calls' # <<>> \/ downstream' # downstream) =>
              req.method = "POST" /\ event \in SyncEvents
         /\ jobsRequested => event = "job.completed" /\ probe'.version = "esm"
         /\ (/\ probe'.version = "esm"
             /\ "action" \in DOMAIN result'
             /\ Truthy(Get(CarriedCustomer(req.body), "id")))
            => (jobsRequested <=> event = "job.completed")]_vars

\* a job.completed delivery requested the jobs and synced the customer
C35_Witness ==
  /\ HandledByOrchestrator
  /\ Get(probe.request.body, "event") = "job.completed"
  /\ Synced
  /\ result.action = "created"
  /\ calls # <<>>
  /\ calls[1].op = "jobs"

====
